---- MODULE Spec2Model ----
(***************************************************************************)
(* A model of michenriksen/chart: the insertion-ordered label/value store  *)
(* (orderedMap), the Chart built on it (Set, Add, Labels, Value, MaxValue, *)
(* MaxLabel), the text functions ParseLine and stringToInt, the terminal   *)
(* and Mermaid renderers, the command line's Run, and the orderedMap and   *)
(* Chart.Add under concurrent callers.                                     *)
(*                                                                         *)
(* Strings are sequences of characters: a one-character string for an      *)
(* ASCII character, a name such as "U+00E9" for another rune, and "0xC3"   *)
(* for a byte that a slice has cut out of a rune.  Rune and UTF8 give the  *)
(* code point and the bytes of a character, so that lengths in bytes and   *)
(* in runes, slicing, trimming and byte-wise comparison are computed as    *)
(* the Go code computes them.                                              *)
(* A float64 value v is the integer v * Unit (Unit = 10^FracDigits);       *)
(* the values the model draws are multiples of 1/4, for which the float64  *)
(* sums of Add are exact.  Value and MaxValue round, and the length of a   *)
(* bar is rounded in linear and in logarithmic mode, as the float64        *)
(* operations of the code round: see RoundTo, LinearLength and LogLength.  *)
(* math.Round's -0 is the number 0 (Go compares them equal) with the sign  *)
(* that Signbit tells and that %g prints.                                  *)
(***************************************************************************)
EXTENDS Integers, Sequences, FiniteSets, TLC

VARIABLES
    data,     \* Chart.data: the orderedMap [m |-> label -> value, k |-> labels in insertion order]
    sort,     \* Chart.sort
    sortDir,  \* Chart.sortDir
    p,        \* Chart.p = 10^precision
    ret,      \* the last Chart call: its arguments and what it returned
    line,     \* the argument of the text function under test
    out,      \* what the text function returned
    r,        \* the Renderer NewRenderer returned (simple or mermaid), or none
    rendered, \* what the last Render call wrote and how it ended
    run,      \* cli.Run: its flags, the input lines left to scan, its position and exit status
    mu,       \* orderedMap.mu: the sync.RWMutex
    th        \* the concurrent callers: each one's call, position and locals

vars == <<data, sort, sortDir, p, ret, line, out, r, rendered, run, mu, th>>

-----------------------------------------------------------------------------
(* Bounds of the model *)

MaxLabels == 2      \* at most this many labels in a chart
FracDigits == 3     \* decimal digits a stored value is modelled to
MaxLineLen == 4     \* length of the enumerated text inputs
MaxInput == 3       \* lines of input a run of the command reads
NumThreads == 2     \* concurrent callers of one orderedMap

-----------------------------------------------------------------------------
(* Program constants *)

SortNone == 0
SortByLabel == 1
SortByLabelNumeric == 2
SortByValue == 3

OrderNone == 0
OrderAsc == 1
OrderDesc == 2

DefaultSort == SortNone
DefaultSortDirection == OrderNone
DefaultPrecision == 2

SortOptions == {SortNone, SortByLabel, SortByLabelNumeric, SortByValue}
SortDirections == {OrderNone, OrderAsc, OrderDesc}

-----------------------------------------------------------------------------
(* Numbers *)

RECURSIVE Pow10(_)
Pow10(n) == IF n <= 0 THEN 1 ELSE 10 * Pow10(n - 1)

Unit == Pow10(FracDigits)

\* math.Round(a / b) for integers a and b > 0: to nearest, halves away from zero.
Round(a, b) ==
    IF a >= 0 THEN (2 * a + b) \div (2 * b)
    ELSE -((2 * (-a) + b) \div (2 * b))

\* cmp.Compare on numbers.
Compare(a, b) == IF a < b THEN -1 ELSE IF a > b THEN 1 ELSE 0

\* float64 arithmetic.  The values of a chart are decimals v / Unit, and the float64
\* nearest to one is not the decimal itself: where a length falls half way between
\* two integers, the float64 operations are carried out on natural numbers wider
\* than the integers of the checker, kept as sequences of 15-bit limbs, least
\* significant first, without leading zero limbs.
LimbBase == 32768

RECURSIVE BigOf(_)
BigOf(n) == IF n = 0 THEN << >> ELSE <<n % LimbBase>> \o BigOf(n \div LimbBase)

RECURSIVE BigTrim(_)
BigTrim(x) ==
    IF x # << >> /\ x[Len(x)] = 0 THEN BigTrim(SubSeq(x, 1, Len(x) - 1)) ELSE x

RECURSIVE BigCmp(_, _)
BigCmp(x, y) ==
    IF Len(x) # Len(y) THEN Compare(Len(x), Len(y))
    ELSE IF x = << >> THEN 0
    ELSE IF x[Len(x)] # y[Len(x)] THEN Compare(x[Len(x)], y[Len(x)])
    ELSE BigCmp(SubSeq(x, 1, Len(x) - 1), SubSeq(y, 1, Len(x) - 1))

RECURSIVE BigAdd(_, _, _)
BigAdd(x, y, carry) ==
    IF y = << >> /\ carry = 0 THEN x
    ELSE IF x = << >> /\ carry = 0 THEN y
    ELSE LET s == (IF x = << >> THEN 0 ELSE Head(x)) + (IF y = << >> THEN 0 ELSE Head(y)) + carry
         IN  <<s % LimbBase>> \o BigAdd(IF x = << >> THEN x ELSE Tail(x),
                                        IF y = << >> THEN y ELSE Tail(y), s \div LimbBase)

\* x - y for x >= y.
RECURSIVE BigSub(_, _, _)
BigSub(x, y, borrow) ==
    IF y = << >> /\ borrow = 0 THEN x
    ELSE LET d == Head(x) - (IF y = << >> THEN 0 ELSE Head(y)) - borrow
         IN  BigTrim(<<d % LimbBase>> \o BigSub(Tail(x), IF y = << >> THEN y ELSE Tail(y),
                                                 IF d < 0 THEN 1 ELSE 0))

\* x times a limb k > 0, plus carry.
RECURSIVE BigScale(_, _, _)
BigScale(x, k, carry) ==
    IF x = << >> THEN BigOf(carry)
    ELSE LET s == Head(x) * k + carry
         IN  <<s % LimbBase>> \o BigScale(Tail(x), k, s \div LimbBase)

\* x times LimbBase^i.
BigShift(x, i) == IF x = << >> THEN x ELSE [j \in 1..i |-> 0] \o x

RECURSIVE BigMul(_, _)
BigMul(x, y) ==
    IF x = << >> \/ y = << >> THEN << >>
    ELSE BigAdd(IF Head(y) = 0 THEN << >> ELSE BigScale(x, Head(y), 0),
                BigShift(BigMul(x, Tail(y)), 1), 0)

\* x times 2^s.
BigShl(x, s) == BigShift(BigScale(x, 2^(s % 15), 0), s \div 15)

\* The number of bits of x > 0.
BigBits(x) == (Len(x) - 1) * 15 + CHOOSE k \in 1..15 : x[Len(x)] \div 2^(k - 1) = 1

\* The greatest q of lo..hi with d * q <= n, where d * lo <= n.
RECURSIVE QuoLimb(_, _, _, _)
QuoLimb(n, d, lo, hi) ==
    IF lo = hi THEN lo
    ELSE IF BigCmp(BigScale(d, (lo + hi + 1) \div 2, 0), n) <= 0
    THEN QuoLimb(n, d, (lo + hi + 1) \div 2, hi)
    ELSE QuoLimb(n, d, lo, (lo + hi + 1) \div 2 - 1)

\* The quotient and the remainder of n by d > 0, the quotient below LimbBase^(i+1).
RECURSIVE BigQuoRem(_, _, _)
BigQuoRem(n, d, i) ==
    LET Lower(q) == BigQuoRem(IF q = 0 THEN n ELSE BigSub(n, BigScale(BigShift(d, i), q, 0), 0),
                              d, i - 1)
        Place(q, rest) == <<BigAdd(rest[1], BigShift(BigOf(q), i), 0), rest[2]>>
        Step(q) == Place(q, Lower(q))
    IN  IF i < 0 THEN << << >>, n >>
        ELSE Step(QuoLimb(n, BigShift(d, i), 0, LimbBase - 1))

\* The float64 nearest to n / d * 2^e for n, d > 0, halves to even: m * 2^x with a
\* mantissa m of 53 bits.  The quotient is taken to 54 bits, with its remainder.
Float64Of(n, d, e) ==
    LET Exact(m, x) == IF BigBits(m) = 54 THEN [m |-> Tail(BigScale(m, 2^14, 0)), e |-> x + 1]
                       ELSE [m |-> m, e |-> x]
        Nearest(qr, x) ==
            Exact(BigAdd(Tail(BigScale(qr[1], 2^14, 0)), << >>,
                         IF Head(qr[1]) % 4 = 3 \/ (Head(qr[1]) % 2 = 1 /\ qr[2] # << >>)
                         THEN 1 ELSE 0), x + 1)
        Quotient(s) == Nearest(IF s >= 0 THEN BigQuoRem(BigShl(n, s), d, 3)
                               ELSE BigQuoRem(n, BigShl(d, -s), 3), e - s)
        Bits(s) == IF s >= 0 THEN BigCmp(BigShl(n, s), BigShl(d, 53)) >= 0
                   ELSE BigCmp(n, BigShl(d, 53 - s)) >= 0
        Shift(s) == Quotient(IF Bits(s) THEN s ELSE s + 1)
    IN  Shift(53 - (BigBits(n) - BigBits(d)))

\* x >= k + 1/2: math.Round takes the float64 x to k + 1, and not to k.
ReachesHalf(x, k) ==
    IF x.e + 1 >= 0 THEN BigCmp(BigShl(x.m, x.e + 1), BigOf(2 * k + 1)) >= 0
    ELSE BigCmp(x.m, BigShl(BigOf(2 * k + 1), -(x.e + 1))) >= 0

\* math.Round(val*c.p) / c.p, for val = v / Unit and c.p = pp, again in Units.  The
\* float64 product errs by less than the distance of the exact product to a half,
\* unless the exact product is a half: then the float64 product is a half, or
\* misses it by its last bit.  It is a half where val is a float64 itself, a
\* multiple of 2^-FracDigits.
RoundTo(v, pp) ==
    LET Abs(n) == IF n < 0 THEN -n ELSE n
        Signed(n) == IF v < 0 THEN -n ELSE n
        Product(x) == Float64Of(BigMul(x.m, BigOf(pp)), <<1>>, x.e)
    IN  IF /\ (2 * v * pp) % Unit = 0
           /\ ((2 * Abs(v) * pp) \div Unit) % 2 = 1
           /\ v % (Unit \div 2^FracDigits) # 0
        THEN Signed((Abs(v) * pp) \div Unit
                    + IF ReachesHalf(Product(Float64Of(BigOf(Abs(v)), BigOf(Unit), 0)),
                                     (Abs(v) * pp) \div Unit)
                      THEN 1 ELSE 0) * (Unit \div pp)
        ELSE Round(v * pp, Unit) * (Unit \div pp)

-----------------------------------------------------------------------------
(* Characters and strings *)

Digits == {"0", "1", "2", "3", "4", "5", "6", "7", "8", "9"}

\* A string is the sequence of its characters, one for each rune a range over the
\* string yields.  An ASCII character is the string of that character; another
\* rune is named by its code point, as "U+00E9"; a byte that is part of no valid
\* UTF-8 encoding, as a slice through a rune leaves it, is named by its value, as
\* "0xC3", and is one character (utf8.DecodeRuneInString gives it the width 1).
RawByte(b) ==
    LET Hex == <<"0", "1", "2", "3", "4", "5", "6", "7", "8", "9", "A", "B", "C", "D", "E", "F">>
    IN  "0x" \o Hex[(b \div 16) + 1] \o Hex[(b % 16) + 1]

\* The rune of a character: its code point, and utf8.RuneError (U+FFFD) for a
\* byte of no rune.  U+FFFD itself is not among the characters of the model.
Rune ==
    LET Ascii ==    \* from the space, 32, to the tilde, 126 (the grave accent by its name)
            << " ", "!", "\"", "#", "$", "%", "&", "'", "(", ")", "*", "+", ",", "-", ".", "/",
               "0", "1", "2", "3", "4", "5", "6", "7", "8", "9", ":", ";", "<", "=", ">", "?",
               "@", "A", "B", "C", "D", "E", "F", "G", "H", "I", "J", "K", "L", "M", "N", "O",
               "P", "Q", "R", "S", "T", "U", "V", "W", "X", "Y", "Z", "[", "\\", "]", "^", "_",
               "U+0060", "a", "b", "c", "d", "e", "f", "g", "h", "i", "j", "k", "l", "m", "n", "o",
               "p", "q", "r", "s", "t", "u", "v", "w", "x", "y", "z", "{", "|", "}", "~" >>
        Named ==
            << <<"\t", 9>>, <<"\n", 10>>, <<"U+000B", 11>>, <<"\f", 12>>, <<"\r", 13>>,
               <<"U+0085", 133>>, <<"U+00A0", 160>>, <<"U+00C9", 201>>, <<"U+00E9", 233>>,
               <<"U+1680", 5760>>, <<"U+2000", 8192>>, <<"U+2001", 8193>>, <<"U+2002", 8194>>,
               <<"U+2003", 8195>>, <<"U+2004", 8196>>, <<"U+2005", 8197>>, <<"U+2006", 8198>>,
               <<"U+2007", 8199>>, <<"U+2008", 8200>>, <<"U+2009", 8201>>, <<"U+200A", 8202>>,
               <<"U+200B", 8203>>, <<"U+2028", 8232>>, <<"U+2029", 8233>>, <<"U+202F", 8239>>,
               <<"U+205F", 8287>>, <<"U+2587", 9607>>, <<"U+258F", 9615>>, <<"U+3000", 12288>> >>
    IN  [c \in {Ascii[i] : i \in DOMAIN Ascii} \cup {Named[i][1] : i \in DOMAIN Named}
               \cup {RawByte(b) : b \in 128..255} |->
            IF \E i \in DOMAIN Ascii : Ascii[i] = c
            THEN 31 + CHOOSE i \in DOMAIN Ascii : Ascii[i] = c
            ELSE IF \E i \in DOMAIN Named : Named[i][1] = c
            THEN Named[CHOOSE i \in DOMAIN Named : Named[i][1] = c][2]
            ELSE 65533]

DigitVal(c) == Rune[c] - 48

\* The bytes of a character: the UTF-8 encoding of its rune, or the byte it names.
UTF8(c) ==
    LET n == Rune[c]
    IN  IF n = 65533 THEN <<CHOOSE b \in 128..255 : RawByte(b) = c>>
        ELSE IF n < 128 THEN <<n>>
        ELSE IF n < 2048 THEN <<192 + (n \div 64), 128 + (n % 64)>>
        ELSE IF n < 65536
        THEN <<224 + (n \div 4096), 128 + ((n \div 64) % 64), 128 + (n % 64)>>
        ELSE <<240 + (n \div 262144), 128 + ((n \div 4096) % 64), 128 + ((n \div 64) % 64),
               128 + (n % 64)>>

\* The bytes of a string, which are what a Go string holds.
RECURSIVE Bytes(_)
Bytes(s) == IF s = << >> THEN << >> ELSE UTF8(Head(s)) \o Bytes(Tail(s))

\* len(s): the number of bytes of the string.
len(s) == Len(Bytes(s))

\* s[lo:hi] for 0 <= lo <= hi <= len(s): the bytes lo to hi - 1 of s, as
\* characters again.  A rune the slice cuts leaves the bytes it has inside the slice.
RECURSIVE Slice(_, _, _)
Slice(s, lo, hi) ==
    IF s = << >> THEN << >>
    ELSE LET enc == UTF8(Head(s))
             from == IF lo > 0 THEN lo ELSE 0
             to == IF hi < Len(enc) THEN hi ELSE Len(enc)
         IN  (IF from = 0 /\ to = Len(enc) THEN <<Head(s)>>
              ELSE IF to <= from THEN << >>
              ELSE [k \in 1..(to - from) |-> RawByte(enc[from + k])])
             \o Slice(Tail(s), lo - Len(enc), hi - Len(enc))

\* cmp.Compare on strings: byte-wise lexicographic.
CompareString(a, b) ==
    LET compare(x, y) ==
            LET differ == {i \in 1..Len(x) : i <= Len(y) /\ x[i] # y[i]}
                first == CHOOSE i \in differ : \A j \in differ : i <= j
            IN  IF differ = {} THEN Compare(Len(x), Len(y)) ELSE Compare(x[first], y[first])
    IN  compare(Bytes(a), Bytes(b))

\* strings.Join(floatRE.FindAllString(s, -1), ""): the digits and dots of s, in order.
floatChars(s) == SelectSeq(s, LAMBDA c : c \in Digits \/ c = ".")

\* What differs between the builds of the program.  nan: int(length) for a length
\* that is NaN is implementation-dependent in Go, the amd64 build gives the least
\* int64 (negative), the arm64 build gives 0.  fused: whether x*y + z is one
\* float64 operation, which Go leaves to the implementation; the amd64 build does
\* not fuse, the arm64 build does.  int: the bits of an int (strconv.IntSize), 64
\* in the amd64 and arm64 builds, 32 in the 386 and arm builds.
Builds == [nan : {"negative", "zero"}, fused : BOOLEAN, int : {32, 64}]

RECURSIVE DigitsToInt(_, _)
DigitsToInt(s, acc) ==
    IF s = << >> THEN acc ELSE DigitsToInt(Tail(s), 10 * acc + DigitVal(Head(s)))

\* An int is its sign and its magnitude, [neg, m], the magnitude a natural number
\* in limbs: an int of 64 bits is wider than the integers of the checker.  The
\* int 0 is not negative.
\*
\* strconv.Atoi in a build whose int has size bits, <<n, ok>>: it is ParseInt(s, 10,
\* 0), and its fast path for short strings gives the same.  ParseUint reads the
\* bytes after the sign up to the first that is no digit, a syntax error, or that
\* takes the number n1 past maxVal, 2^size - 1, a range error, of which it returns
\* maxVal (n >= cutoff, where n*10 is past a uint64, is a case of that in natural
\* numbers); ParseInt holds the number against its cutoff, 2^(size-1).  The int
\* returned with a syntax error is 0, with a range error the nearest int.
Atoi(s, size) ==
    LET signed == s # << >> /\ Head(s) \in {"+", "-"}
        neg == signed /\ Head(s) = "-"
        IntOf(negative, un) == [neg |-> negative /\ un # << >>, m |-> un]
        RECURSIVE ParseUint(_, _, _)
        ParseUint(bytes, n, maxVal) ==
            IF BigCmp(n, maxVal) > 0 THEN <<maxVal, "range">>
            ELSE IF bytes = << >> THEN <<n, "">>
            ELSE IF Head(bytes) \notin Digits THEN << << >>, "syntax">>
            ELSE ParseUint(Tail(bytes), BigScale(n, 10, DigitVal(Head(bytes))), maxVal)
        ParseInt(un, cutoff) ==
            IF un[2] = "syntax" THEN <<IntOf(FALSE, << >>), FALSE>>
            ELSE IF ~neg /\ BigCmp(un[1], cutoff) >= 0
            THEN <<IntOf(FALSE, BigSub(cutoff, <<1>>, 0)), FALSE>>
            ELSE IF neg /\ BigCmp(un[1], cutoff) > 0 THEN <<IntOf(TRUE, cutoff), FALSE>>
            ELSE <<IntOf(neg, un[1]), TRUE>>
    IN  IF s = << >> \/ (signed /\ Tail(s) = << >>) THEN <<IntOf(FALSE, << >>), FALSE>>
        ELSE ParseInt(ParseUint(IF signed THEN Tail(s) ELSE s, << >>,
                                BigSub(BigShl(<<1>>, size), <<1>>, 0)),
                      BigShl(<<1>>, size - 1))

\* stringToInt in a build whose int has size bits.
stringToInt(s, size) ==
    LET OrElse(num, otherwise) == IF num[2] THEN num[1] ELSE otherwise
        numStr == floatChars(s)
    IN  OrElse(Atoi(s, size),
               IF numStr = << >> THEN [neg |-> FALSE, m |-> << >>]
               ELSE OrElse(Atoi(numStr, size), [neg |-> FALSE, m |-> << >>]))

-----------------------------------------------------------------------------
(* orderedMap *)

newOrderedMap == [m |-> [x \in {} |-> 0], k |-> << >>]

\* Mutant of set: an update moves the key to the end of the key sequence.
setMoveToEnd(d, key, val) ==
    [m |-> [x \in DOMAIN d.m \cup {key} |-> IF x = key THEN val ELSE d.m[x]],
     k |-> Append(SelectSeq(d.k, LAMBDA x : x # key), key)]

\* Mutant of set: the key is appended even when it is already there.
setAppendAlways(d, key, val) ==
    [m |-> [x \in DOMAIN d.m \cup {key} |-> IF x = key THEN val ELSE d.m[x]],
     k |-> Append(d.k, key)]

set(d, key, val) ==
    IF key \in DOMAIN d.m
    THEN [d EXCEPT !.m[key] = val]
    ELSE [m |-> [x \in DOMAIN d.m \cup {key} |-> IF x = key THEN val ELSE d.m[x]],
          k |-> Append(d.k, key)]

get(d, key) == IF key \in DOMAIN d.m THEN <<d.m[key], TRUE>> ELSE <<0, FALSE>>

keys(d) == d.k

values(d) == [i \in 1..Len(d.k) |-> d.m[d.k[i]]]

-----------------------------------------------------------------------------
(* Chart: the queries *)

\* slices.Reverse
Reverse(s) == [i \in 1..Len(s) |-> s[Len(s) + 1 - i]]

Range(s) == {s[i] : i \in DOMAIN s}

\* Mutant of InsertLeft: the element also moves past an equal neighbour.
RECURSIVE InsertLeftUnstable(_, _, _)
InsertLeftUnstable(s, j, cmpF) ==
    IF j > 1 /\ cmpF[s[j], s[j - 1]] <= 0
    THEN InsertLeftUnstable([s EXCEPT ![j] = s[j - 1], ![j - 1] = s[j]], j - 1, cmpF)
    ELSE s

\* The inner loop of the insertion sort: s[j] moves left while it compares
\* below its left neighbour.
RECURSIVE InsertLeft(_, _, _)
InsertLeft(s, j, cmpF) ==
    IF j > 1 /\ cmpF[s[j], s[j - 1]] < 0
    THEN InsertLeft([s EXCEPT ![j] = s[j - 1], ![j - 1] = s[j]], j - 1, cmpF)
    ELSE s

RECURSIVE InsertionSort(_, _, _)
InsertionSort(s, i, cmpF) ==
    IF i > Len(s) THEN s ELSE InsertionSort(InsertLeft(s, i, cmpF), i + 1, cmpF)

\* slices.SortStableFunc: for fewer than 20 elements it is one insertion sort.
SortStableFunc(s, cmpF) == InsertionSort(s, 2, cmpF)

\* The comparison function Labels hands to the sort, by sort option, in a build
\* whose int has size bits.
cmpFor(d, so, size) ==
    LET CompareInt(a, b) ==    \* cmp.Compare on ints
            IF a.neg # b.neg THEN (IF a.neg THEN -1 ELSE 1)
            ELSE IF a.neg THEN BigCmp(b.m, a.m) ELSE BigCmp(a.m, b.m)
    IN  [i \in Range(d.k), j \in Range(d.k) |->
            CASE so = SortByLabel -> CompareString(i, j)
              [] so = SortByLabelNumeric ->
                    CompareInt(stringToInt(i, size), stringToInt(j, size))
              [] so = SortByValue -> Compare(get(d, i)[1], get(d, j)[1])
              [] OTHER -> 0]

\* Mutant of LabelsOf: descending order by sorting on the negated comparison.
LabelsOfNegatedCmp(d, so, dir, size) ==
    LET labels == keys(d)
        c == cmpFor(d, so, size)
        neg == [i \in Range(d.k), j \in Range(d.k) |-> -c[i, j]]
    IN  IF so \in {SortByLabel, SortByLabelNumeric, SortByValue}
        THEN SortStableFunc(labels, IF dir = OrderDesc THEN neg ELSE c)
        ELSE IF dir = OrderDesc THEN Reverse(labels) ELSE labels

\* (*Chart).Labels of the chart d with the options so and dir, in a build whose int
\* has size bits.
LabelsOf(d, so, dir, size) ==
    LET labels == keys(d)
        sorted == IF so \in {SortByLabel, SortByLabelNumeric, SortByValue}
                  THEN SortStableFunc(labels, cmpFor(d, so, size))
                  ELSE labels
    IN  IF dir = OrderDesc THEN Reverse(sorted) ELSE sorted

Labels(size) == LabelsOf(data, sort, sortDir, size)

\* Mutant of Value: an unknown label reads as the zero value.
ValueZeroForUnknown(label) == <<RoundTo(get(data, label)[1], p), "">>

\* <<value, "">> or <<0, "unknown label">>.  The value is a number of Units: the
\* zero math.Round leaves of a negative val is -0, which is the number 0 with the
\* sign bit that Signbit tells.
Value(label) ==
    IF get(data, label)[2]
    THEN <<RoundTo(get(data, label)[1], p), "">>
    ELSE <<0, "unknown label">>

\* The sign bit of the float64 Value(label) returns: math.Round and the division by
\* c.p keep the sign of val, and the 0 returned with the error has none.  (The
\* values the model stores are numbers of Units; a stored -0 is not among them.)
Signbit(label) == get(data, label)[2] /\ get(data, label)[1] < 0

RECURSIVE maxOver(_, _)
maxOver(vals, maxVal) ==
    IF vals = << >> THEN maxVal
    ELSE maxOver(Tail(vals), IF Head(vals) > maxVal THEN Head(vals) ELSE maxVal)

MaxValue ==
    LET vals == values(data)
    IN  IF Len(vals) = 0 THEN 0 ELSE RoundTo(maxOver(vals, 0), p)

RECURSIVE longestOver(_, _)
longestOver(labels, maxLabel) ==
    IF labels = << >> THEN maxLabel
    ELSE longestOver(Tail(labels),
                     IF len(Head(labels)) > len(maxLabel) THEN Head(labels) ELSE maxLabel)

MaxLabel ==
    LET labels == keys(data)
    IN  IF Len(labels) = 0 THEN << >> ELSE longestOver(labels, << >>)

-----------------------------------------------------------------------------
(* Inputs of the chart *)

\* "b2", "a2", and "2147483648", the least number an int of 32 bits does not hold.
LabelUniverse ==
    { <<"b", "2">>, <<"a", "2">>, <<"2", "1", "4", "7", "4", "8", "3", "6", "4", "8">> }

Quarter == Unit \div 4

\* -0.25, 0.25 and 0.5
ValueDomain == { -Quarter, Quarter, 2 * Quarter }

PrecisionArgs == { -1, 0, 1, DefaultPrecision }

NoRet == [op |-> "none"]

\* The parts of the state a specification does not use stay at these values.
NoRenderer == [pkg |-> "none"]
NotRendered == [status |-> "none"]
NoRun == [pc |-> "none"]
Unlocked == [w |-> FALSE, r |-> 0]
NoText == line = << >> /\ out = NoRet
NoRendering == r = NoRenderer /\ rendered = NotRendered
NoCli == run = NoRun
NoCallers == mu = Unlocked /\ th = << >>

-----------------------------------------------------------------------------
(* Chart: construction and the calls *)

WithPrecision(n) == Pow10(IF n < 0 THEN 0 ELSE n)

\* chart.New(WithSorting(so, dir), WithPrecision(n))
New(so, dir, n) ==
    /\ data = newOrderedMap
    /\ sort = so
    /\ sortDir = dir
    /\ p = WithPrecision(n)

Init ==
    /\ \E so \in SortOptions, dir \in SortDirections, n \in PrecisionArgs : New(so, dir, n)
    /\ ret = NoRet
    /\ NoText
    /\ NoRendering
    /\ NoCli
    /\ NoCallers

Set(label, value) ==
    /\ label \in DOMAIN data.m \/ Len(data.k) < MaxLabels
    /\ data' = set(data, label, value)
    /\ ret' = [op |-> "Set", label |-> label, value |-> value]
    /\ UNCHANGED <<sort, sortDir, p, line, out, r, rendered, run, mu, th>>

\* Mutant of Add: the stored value is overwritten, not incremented.
AddOverwrites(label, value) ==
    /\ label \in DOMAIN data.m \/ Len(data.k) < MaxLabels
    /\ data' = set(data, label, value)
    /\ ret' = [op |-> "Add", label |-> label, value |-> value]
    /\ UNCHANGED <<sort, sortDir, p, line, out, r, rendered, run, mu, th>>

Add(label, value) ==
    LET g == get(data, label)
        sum == IF g[2] THEN value + g[1] ELSE value
    IN  /\ label \in DOMAIN data.m \/ Len(data.k) < MaxLabels
        /\ sum \in ValueDomain
        /\ data' = set(data, label, sum)
        /\ ret' = [op |-> "Add", label |-> label, value |-> value]
        /\ UNCHANGED <<sort, sortDir, p, line, out, r, rendered, run, mu, th>>

CallLabels ==
    /\ \E size \in {b.int : b \in Builds} :
          ret' = [op |-> "Labels", labels |-> Labels(size), int |-> size]
    /\ UNCHANGED <<data, sort, sortDir, p, line, out, r, rendered, run, mu, th>>

CallValue(label) ==
    /\ ret' = [op |-> "Value", label |-> label, val |-> Value(label)[1], err |-> Value(label)[2],
                neg |-> Signbit(label)]
    /\ UNCHANGED <<data, sort, sortDir, p, line, out, r, rendered, run, mu, th>>

CallMaxValue ==
    /\ ret' = [op |-> "MaxValue", val |-> MaxValue]
    /\ UNCHANGED <<data, sort, sortDir, p, line, out, r, rendered, run, mu, th>>

CallMaxLabel ==
    /\ ret' = [op |-> "MaxLabel", label |-> MaxLabel]
    /\ UNCHANGED <<data, sort, sortDir, p, line, out, r, rendered, run, mu, th>>

Next ==
    \/ \E label \in LabelUniverse, value \in ValueDomain : Set(label, value)
    \/ \E label \in LabelUniverse, value \in ValueDomain : Add(label, value)
    \/ CallLabels
    \/ \E label \in LabelUniverse : CallValue(label)
    \/ CallMaxValue
    \/ CallMaxLabel

Spec == Init /\ [][Next]_vars

-----------------------------------------------------------------------------
(* ParseLine *)

\* dataSepRE, [\s,;:|#]: the characters that separate the value from the label.
dataSepRE == {" ", "\t", "\n", "\f", "\r", ",", ";", ":", "|", "#"}

\* unicode.IsSpace, by which strings.TrimSpace trims: in Latin-1 the characters
\* '\t', '\n', '\v', '\f', '\r', ' ', U+0085 and U+00A0, beyond it the runes with
\* Unicode's White_Space property.  The \s of dataSepRE matches the first
\* six of them without '\v'.
IsSpace(c) ==
    LET n == Rune[c]
    IN  \/ n \in 9..13
        \/ n \in {32, 133, 160, 5760, 8232, 8233, 8239, 8287, 12288}
        \/ n \in 8192..8202

\* dataSepRE.FindStringIndex(line)[0], counted from 1; 0 when nothing matches.
FindStringIndex(s) ==
    LET matches == {i \in 1..Len(s) : s[i] \in dataSepRE}
    IN  IF matches = {} THEN 0 ELSE CHOOSE i \in matches : \A j \in matches : i <= j

RECURSIVE TrimLeft(_)
TrimLeft(s) == IF s # << >> /\ IsSpace(Head(s)) THEN TrimLeft(Tail(s)) ELSE s

RECURSIVE TrimRight(_)
TrimRight(s) ==
    IF s # << >> /\ IsSpace(s[Len(s)]) THEN TrimRight(SubSeq(s, 1, Len(s) - 1)) ELSE s

\* strings.TrimSpace
TrimSpace(s) == TrimRight(TrimLeft(s))

\* strings.TrimSuffix(s, ".")
TrimSuffix(s) == IF s # << >> /\ s[Len(s)] = "." THEN SubSeq(s, 1, Len(s) - 1) ELSE s

\* 2^1024 - 2^970, half way between the greatest float64 and 2^1024: the least
\* number strconv.ParseFloat rounds to no float64.  Its 309 decimal digits, in
\* groups of nine after a first group of three.
OverflowBound ==
    << 179, 769313486, 231580793, 728971405, 303415079, 934132710, 37826936, 173778980,
       444968292, 764750946, 649017977, 587207096, 330286416, 692887910, 946555547,
       851940402, 630657488, 671505820, 681908902, 708383, 676273854, 845817711,
       531764475, 730270069, 855571366, 959622842, 914819860, 834936475, 292719074,
       168444365, 510704342, 711559699, 508093042, 880177904, 174497792 >>

\* strconv.ParseFloat(s, 64) for a string of digits and dots: <<number, ok>>.
\* It fails with a syntax error unless s has a digit and at most one dot, and with
\* a range error (the number it then returns is +Inf) from OverflowBound on.  A
\* number is <<mantissa, exponent>>, mantissa / 10^exponent with no trailing zero
\* in the fraction: the decimal s spells, of which the code holds the nearest
\* float64.
ParseFloat(s) ==
    LET RECURSIVE Normalize(_)
        Normalize(d) ==
            IF d[2] > 0 /\ d[1] % 10 = 0 THEN Normalize(<<d[1] \div 10, d[2] - 1>>) ELSE d
        dots == {i \in 1..Len(s) : s[i] = "."}
        digits == SelectSeq(s, LAMBDA c : c \in Digits)
        point == IF dots = {} THEN Len(s) + 1 ELSE CHOOSE i \in dots : TRUE
        zeros == {i \in 1..(point - 1) : \A j \in 1..i : s[j] = "0"}
        whole == SubSeq(s, Cardinality(zeros) + 1, point - 1)
        Group(i) == DigitsToInt(SubSeq(whole, IF i = 1 THEN 1 ELSE 9 * i - 14, 9 * i - 6), 0)
        below == \E i \in DOMAIN OverflowBound :
                    /\ Group(i) < OverflowBound[i]
                    /\ \A j \in 1..(i - 1) : Group(j) = OverflowBound[j]
    IN  IF Cardinality(dots) > 1 \/ digits = << >>
        THEN <<(<<0, 0>>), FALSE>>
        ELSE IF Len(whole) > 309 \/ (Len(whole) = 309 /\ ~below)
        THEN <<(<<0, 0>>), FALSE>>
        ELSE <<Normalize(<<DigitsToInt(digits, 0), IF dots = {} THEN 0 ELSE Len(s) - point>>), TRUE>>

\* Mutant of ParseLine: the value is checked before the label.
ParseLineValueFirst(l) ==
    LET sepIdx == FindStringIndex(l)
        value == TrimSpace(SubSeq(l, 1, sepIdx - 1))
        label == TrimSpace(SubSeq(l, sepIdx + 1, Len(l)))
        number == TrimSuffix(floatChars(value))
        fail(msg) == [value |-> <<0, 0>>, label |-> << >>, err |-> msg]
    IN  IF sepIdx = 0 THEN fail("missing data separator")
        ELSE IF number = << >> THEN fail("missing value")
        ELSE IF label = << >> THEN fail("missing label")
        ELSE IF ~ParseFloat(number)[2] THEN fail("parsing as float64")
        ELSE [value |-> ParseFloat(number)[1], label |-> label, err |-> ""]

ParseLine(l) ==
    LET sepIdx == FindStringIndex(l)
        value == TrimSpace(SubSeq(l, 1, sepIdx - 1))
        label == TrimSpace(SubSeq(l, sepIdx + 1, Len(l)))
        number == TrimSuffix(floatChars(value))
        fail(msg) == [value |-> <<0, 0>>, label |-> << >>, err |-> msg]
    IN  IF sepIdx = 0 THEN fail("missing data separator")
        ELSE IF label = << >> THEN fail("missing label")
        ELSE IF number = << >> THEN fail("missing value")
        ELSE IF ~ParseFloat(number)[2] THEN fail("parsing as float64")
        ELSE [value |-> ParseFloat(number)[1], label |-> label, err |-> ""]

-----------------------------------------------------------------------------
(* The text functions applied to enumerated inputs *)

\* Digits, the dot, two separators, characters of labels and of currency, and
\* the no-break space, which strings.TrimSpace trims and dataSepRE does not match.
Alphabet == {"1", "0", ".", ",", " ", "$", "a", "-", "U+00A0"}

\* "$1,234.56 Revenue"
LineRevenue ==
    <<"$", "1", ",", "2", "3", "4", ".", "5", "6", " ", "R", "e", "v", "e", "n", "u", "e">>

\* "18.67,2021-Q1"
LineQuarter == <<"1", "8", ".", "6", "7", ",", "2", "0", "2", "1", "-", "Q", "1">>

\* The lines up to MaxLineLen, the examples, and: "999...9,a" with 309 nines, a
\* number beyond the float64 range; "1.2.3 a", a number with two dots; "8 a" and
\* "8 ", each followed by '\v' and U+0085; "2147483648" and "CWE-3000000000",
\* numbers an int of 32 bits does not hold.
Lines ==
    UNION {[1..n -> Alphabet] : n \in 0..MaxLineLen}
        \cup { LineRevenue, LineQuarter,
               [i \in 1..309 |-> "9"] \o <<",", "a">>,
               <<"1", ".", "2", ".", "3", " ", "a">>,
               <<"8", " ", "a", "U+000B", "U+0085">>,
               <<"8", " ", "U+000B", "U+0085">>,
               <<"2", "1", "4", "7", "4", "8", "3", "6", "4", "8">>,
               <<"C", "W", "E", "-", "3", "0", "0", "0", "0", "0", "0", "0", "0", "0">> }

InitText ==
    /\ New(DefaultSort, DefaultSortDirection, DefaultPrecision)
    /\ ret = NoRet
    /\ line \in Lines
    /\ out = NoRet
    /\ NoRendering
    /\ NoCli
    /\ NoCallers

CallParseLine ==
    /\ out' = [op |-> "ParseLine", res |-> ParseLine(line)]
    /\ UNCHANGED <<data, sort, sortDir, p, ret, line, r, rendered, run, mu, th>>

CallStringToInt ==
    /\ \E size \in {b.int : b \in Builds} :
          out' = [op |-> "stringToInt", num |-> stringToInt(line, size)]
    /\ UNCHANGED <<data, sort, sortDir, p, ret, line, r, rendered, run, mu, th>>

NextText ==
    \/ CallParseLine
    \/ CallStringToInt

SpecText == InitText /\ [][NextText]_vars

-----------------------------------------------------------------------------
(* Vocabulary of the properties *)

NoDuplicates(s) == \A i, j \in DOMAIN s : s[i] = s[j] => i = j

\* The position of label l in the sequence s (0 if it is not there).
PosIn(s, l) == IF l \in Range(s) THEN CHOOSE i \in DOMAIN s : s[i] = l ELSE 0

Backwards(s) == [i \in DOMAIN s |-> s[Len(s) - i + 1]]

\* s with l inserted last if it is new.
WithLabel(s, l) == IF l \in Range(s) THEN s ELSE s \o <<l>>

\* The sizes an int has in the builds.
IntSizes == {b.int : b \in Builds}

\* The int a is at most the int b.
IntLeq(a, b) ==
    IF a.neg # b.neg THEN a.neg
    ELSE IF a.neg THEN BigCmp(a.m, b.m) >= 0 ELSE BigCmp(a.m, b.m) <= 0

\* a is ordered before or with b under the sort option so, for the chart d, where
\* an int has size bits.
KeyLeq(d, so, a, b, size) ==
    CASE so = SortByLabel -> CompareString(a, b) <= 0
      [] so = SortByLabelNumeric -> IntLeq(stringToInt(a, size), stringToInt(b, size))
      [] so = SortByValue -> d.m[a] <= d.m[b]
      [] OTHER -> TRUE

KeyEq(d, so, a, b, size) == KeyLeq(d, so, a, b, size) /\ KeyLeq(d, so, b, a, size)

\* The step is a Set call, an Add call, a Value call (ret records the call made).
IsSet == ret'.op = "Set" /\ Set(ret'.label, ret'.value)
IsAdd == ret'.op = "Add" /\ Add(ret'.label, ret'.value)
IsValue == ret'.op = "Value" /\ CallValue(ret'.label)
IsLabels == ret'.op = "Labels" /\ CallLabels

-----------------------------------------------------------------------------
(* C1 *)

\* C1, as claimed: whenever the chart is configured with sort option None,
\* Labels() returns the labels in the order of their first insertion.
C1_AsClaimed ==
    (sort = SortNone /\ ret.op = "Labels") => ret.labels = data.k

\* C1, amended: with sort option None and a direction other than Descending,
\* Labels() is empty at first, a Set or Add of a new label appends it to
\* Labels(), a Set or Add of an existing label leaves Labels() as it was, and a
\* Labels() call returns that sequence.
C1_LabelsNoneInsertionOrder ==
    /\ (sort = SortNone /\ sortDir # OrderDesc) =>
          \A size \in IntSizes : Labels(size) = << >>
    /\ [][ (sort = SortNone /\ sortDir # OrderDesc) =>
             \A size \in IntSizes :
                /\ (IsSet \/ IsAdd) => Labels(size)' = WithLabel(Labels(size), ret'.label)
                /\ IsLabels => /\ ret'.labels = Labels(ret'.int)
                               /\ Labels(size)' = Labels(size) ]_vars

\* An existing label (the first of several) has just been given a new value.
C1_Witness ==
    /\ sort = SortNone /\ sortDir # OrderDesc
    /\ ret.op = "Set"
    /\ Len(data.k) >= 2
    /\ ret.label = data.k[1]
    /\ data.k[1] = <<"b", "2">> /\ data.k[2] = <<"a", "2">>

-----------------------------------------------------------------------------
(* C2 *)

\* C2: after every Set and Add the key sequence has no duplicate and holds
\* exactly the labels with a stored value; Set stores the given value, and on
\* an existing label it leaves the key sequence as it was.
C2_KeysDistinctSetKeepsPosition ==
    [][ /\ NoDuplicates(data'.k)
        /\ Range(data'.k) = DOMAIN data'.m
        /\ IsSet =>
             /\ data'.m[ret'.label] = ret'.value
             /\ ret'.label \in Range(data.k) => data'.k = data.k
             /\ \A x \in DOMAIN data.m \ {ret'.label} : data'.m[x] = data.m[x] ]_vars

\* Set has just replaced the value of the first of two labels.
C2_Witness ==
    /\ ret.op = "Set"
    /\ Len(data.k) = 2
    /\ ret.label = data.k[1]
    /\ data.m[ret.label] = ret.value

-----------------------------------------------------------------------------
(* C3 *)

\* C3: Add(label, delta) on an unset label leaves the chart as Set(label,
\* delta) does, the label last with value delta; on an existing label it makes
\* the value existing + delta and changes neither the key sequence nor any
\* other value.
C3_AddSetsOrIncrements ==
    [][ IsAdd =>
          LET l == ret'.label
              d == ret'.value
          IN IF l \notin DOMAIN data.m
             THEN /\ data'.k = data.k \o <<l>>
                  /\ data'.m = [x \in DOMAIN data.m \cup {l} |-> IF x = l THEN d ELSE data.m[x]]
                  /\ data' = set(data, l, d)
                  /\ UNCHANGED <<sort, sortDir, p>>
             ELSE /\ data'.k = data.k
                  /\ data'.m = [x \in DOMAIN data.m |-> IF x = l THEN data.m[l] + d ELSE data.m[x]]
                  /\ UNCHANGED <<sort, sortDir, p>> ]_vars

\* Add has just incremented the first of several labels.
C3_Witness ==
    /\ ret.op = "Add"
    /\ Len(data.k) >= 2
    /\ ret.label = data.k[1]
    /\ data.m[ret.label] # ret.value

-----------------------------------------------------------------------------
(* C4 *)

\* C4: with sort option ByLabel, ByLabelNumeric or ByValue and a direction
\* other than Descending, Labels() is a permutation of the inserted labels in
\* non-decreasing order of the sort key, and labels with equal keys keep their
\* insertion order.
C4_SortedStable ==
    (ret.op = "Labels" /\ sort # SortNone /\ sortDir # OrderDesc) =>
        /\ Len(ret.labels) = Len(data.k)
        /\ Range(ret.labels) = Range(data.k)
        /\ NoDuplicates(ret.labels)
        /\ \A i, j \in DOMAIN ret.labels :
             i < j =>
                /\ KeyLeq(data, sort, ret.labels[i], ret.labels[j], ret.int)
                /\ KeyEq(data, sort, ret.labels[i], ret.labels[j], ret.int) =>
                      PosIn(data.k, ret.labels[i]) < PosIn(data.k, ret.labels[j])

\* Labels() sorted by value has returned two labels with equal values that
\* were inserted against their alphabetical order.
C4_Witness ==
    /\ ret.op = "Labels" /\ sort = SortByValue /\ sortDir # OrderDesc
    /\ Len(ret.labels) = 2
    /\ data.m[ret.labels[1]] = data.m[ret.labels[2]]
    /\ data.k = << <<"b", "2">>, <<"a", "2">> >>

-----------------------------------------------------------------------------
(* C5 *)

\* C5: for every sort option, Labels() with direction Descending is the
\* sequence Labels() returns with direction Ascending, read backwards; so
\* labels with equal sort keys come in reverse insertion order.
C5_DescendingIsReverse ==
    /\ \A so \in SortOptions, size \in IntSizes :
         LabelsOf(data, so, OrderDesc, size) = Backwards(LabelsOf(data, so, OrderAsc, size))
    /\ (ret.op = "Labels" /\ sortDir = OrderDesc) =>
         /\ ret.labels = Backwards(LabelsOf(data, sort, OrderAsc, ret.int))
         /\ \A i, j \in DOMAIN ret.labels :
              (i < j /\ KeyEq(data, sort, ret.labels[i], ret.labels[j], ret.int)) =>
                 PosIn(data.k, ret.labels[i]) > PosIn(data.k, ret.labels[j])

\* Labels() has returned, in descending order of value, two labels with the
\* same value.
C5_Witness ==
    /\ ret.op = "Labels" /\ sort = SortByValue /\ sortDir = OrderDesc
    /\ Len(ret.labels) = 2
    /\ data.m[ret.labels[1]] = data.m[ret.labels[2]]
    /\ data.k = << <<"b", "2">>, <<"a", "2">> >>

-----------------------------------------------------------------------------
(* C9 *)

\* C9, as claimed: MaxValue() of a non-empty chart is the greatest of the
\* rounded values Value(l) of its labels, whatever their signs; of an empty
\* chart it is 0.
C9_AsClaimed ==
    ret.op = "MaxValue" =>
        IF data.k = << >> THEN ret.val = 0
        ELSE /\ \E l \in Range(data.k) : ret.val = Value(l)[1]
             /\ \A l \in Range(data.k) : ret.val >= Value(l)[1]

-----------------------------------------------------------------------------
(* C10 *)

ValueOk(l) == Value(l)[2] = ""

\* C10: Value(label) returns a value without error exactly for the labels
\* that have been set or added (none at first, and from then on those it
\* already did plus the label of the Set or Add just made), so for every
\* element of Labels(); for any other label it returns the unknown-label
\* error; and a Value call changes nothing of the chart.
C10_ValueExactlyForSetLabels ==
    /\ \A l \in LabelUniverse : Value(l) = <<0, "unknown label">>
    /\ [][ /\ \A l \in LabelUniverse :
                /\ ValueOk(l)' <=> (ValueOk(l) \/ ((IsSet \/ IsAdd) /\ ret'.label = l))
                /\ ~ValueOk(l)' => Value(l)' = <<0, "unknown label">>
           /\ IsLabels => \A i \in DOMAIN ret'.labels : ValueOk(ret'.labels[i])
           /\ IsValue =>
                /\ ret'.err = "" <=> ValueOk(ret'.label)
                /\ ret'.err # "" => ret'.err = "unknown label"
                /\ UNCHANGED <<data, sort, sortDir, p>> ]_vars

\* A Value call on a label never set has just failed, on a chart that holds
\* other labels.
C10_Witness ==
    /\ ret.op = "Value"
    /\ ret.err = "unknown label"
    /\ Len(data.k) >= 1
    /\ ret.label \notin Range(data.k)

-----------------------------------------------------------------------------
(* C6 *)

\* The natural number the digits spell, in limbs.
RECURSIVE NaturalOf(_, _)
NaturalOf(digits, n) ==
    IF digits = << >> THEN n
    ELSE NaturalOf(Tail(digits), BigScale(n, 10, DigitsToInt(<<Head(digits)>>, 0)))

\* The digits from the first that is not 0.
Significant(digits) ==
    LET at == {i \in DOMAIN digits : digits[i] # "0"}
    IN  IF at = {} THEN << >>
        ELSE SubSeq(digits, CHOOSE i \in at : \A j \in at : i <= j, Len(digits))

\* C6, as claimed: the numeric sort key of a label is the integer its digit
\* characters spell, every other character being ignored; 0 if it has no digit.
\* (An int has 19 digits at most.)
C6_AsClaimed ==
    out.op = "stringToInt" =>
        LET digits == Significant(SelectSeq(line, LAMBDA c : c \in Digits))
        IN  /\ Len(digits) <= 19
            /\ out.num = [neg |-> FALSE, m |-> NaturalOf(digits, << >>)]

-----------------------------------------------------------------------------
(* C7 *)

SepPositions(l) == {i \in DOMAIN l : l[i] \in dataSepRE}

FirstSep(l) == CHOOSE i \in SepPositions(l) : \A j \in SepPositions(l) : i <= j

\* The characters with Unicode's White_Space property.
UnicodeWhiteSpace ==
    { "\t", "\n", "U+000B", "\f", "\r", " ", "U+0085", "U+00A0", "U+1680", "U+2000", "U+2001",
      "U+2002", "U+2003", "U+2004", "U+2005", "U+2006", "U+2007", "U+2008", "U+2009", "U+200A",
      "U+2028", "U+2029", "U+202F", "U+205F", "U+3000" }

\* s without its leading and trailing white space.
Trimmed(s) ==
    LET inked == {i \in DOMAIN s : s[i] \notin UnicodeWhiteSpace}
    IN  IF inked = {} THEN << >>
        ELSE SubSeq(s, CHOOSE i \in inked : \A j \in inked : i <= j,
                       CHOOSE i \in inked : \A j \in inked : i >= j)

\* The text before the first separator, reduced to its digits and dots and
\* then without one trailing dot.
ValueText(l) ==
    LET kept == SelectSeq(SubSeq(l, 1, FirstSep(l) - 1), LAMBDA c : c \in Digits \/ c = ".")
    IN  IF kept # << >> /\ kept[Len(kept)] = "." THEN SubSeq(kept, 1, Len(kept) - 1) ELSE kept

LabelText(l) == Trimmed(SubSeq(l, FirstSep(l) + 1, Len(l)))

\* A decimal number: digits with at most one dot among them.
ValidDecimal(s) ==
    /\ \E i \in DOMAIN s : s[i] \in Digits
    /\ \A i, j \in DOMAIN s : (s[i] = "." /\ s[j] = ".") => i = j

\* The outcome the claim gives a line.
ExpectedOutcome(l) ==
    IF SepPositions(l) = {} THEN "missing data separator"
    ELSE IF LabelText(l) = << >> THEN "missing label"
    ELSE IF ValueText(l) = << >> THEN "missing value"
    ELSE IF ~ValidDecimal(ValueText(l)) THEN "parsing as float64"
    ELSE ""

\* The decimal number s spells is 2^1024 - 2^970 or more, by its digits before
\* the dot: they are more than the 309 of that bound, or as many and not below them.
TooLarge(s) ==
    LET dot == {i \in DOMAIN s : s[i] = "."}
        whole == SubSeq(s, 1, IF dot = {} THEN Len(s) ELSE (CHOOSE i \in dot : TRUE) - 1)
        lead == {i \in DOMAIN whole : whole[i] # "0"}
        first == CHOOSE i \in lead : \A j \in lead : i <= j
        Digit(k) == DigitVal(whole[first + k - 1])
        BoundDigit(k) ==
            IF k <= 3 THEN (OverflowBound[1] \div Pow10(3 - k)) % 10
            ELSE (OverflowBound[2 + ((k - 4) \div 9)] \div Pow10(8 - ((k - 4) % 9))) % 10
    IN  /\ lead # {}
        /\ \/ Len(whole) - first + 1 > 309
           \/ /\ Len(whole) - first + 1 = 309
              /\ ~\E k \in 1..309 : /\ Digit(k) < BoundDigit(k)
                                    /\ \A j \in 1..(k - 1) : Digit(j) = BoundDigit(j)

\* The outcome of a line: as claimed, but a number too large for a 64-bit float
\* is an invalid number too.
Outcome(l) ==
    IF ExpectedOutcome(l) = "" /\ TooLarge(ValueText(l)) THEN "parsing as float64"
    ELSE ExpectedOutcome(l)

\* The decimal <<mantissa, exponent>> is the number the text s spells.
Spells(d, s) ==
    LET dot == {i \in DOMAIN s : s[i] = "."}
        fracLen == IF dot = {} THEN 0 ELSE Len(s) - (CHOOSE i \in dot : TRUE)
        digits == SelectSeq(s, LAMBDA c : c \in Digits)
    IN  d[1] * Pow10(fracLen) = DigitsToInt(digits, 0) * Pow10(d[2])

\* C7, as claimed: ParseLine gives a line exactly one outcome, decided in this
\* order: no separator; else empty label after the first separator (trimmed);
\* else empty value before it (digits and dots kept, one trailing dot dropped);
\* else invalid number if what remains is not a valid decimal number; else
\* success with that number and the trimmed label.
C7_AsClaimed ==
    out.op = "ParseLine" =>
        /\ out.res.err = ExpectedOutcome(line)
        /\ out.res.err = "" =>
             /\ Spells(out.res.value, ValueText(line))
             /\ out.res.label = LabelText(line)
        /\ out.res.err # "" => (out.res.value = <<0, 0>> /\ out.res.label = << >>)

\* C7, amended: ParseLine gives a line exactly one outcome, decided in this
\* order: no separator; else empty label after the first separator (trimmed);
\* else empty value before it (digits and dots kept, one trailing dot dropped);
\* else invalid number if what remains is not a valid decimal number or is a
\* number of 2^1024 - 2^970 or more, too large for a 64-bit float; else success
\* with that number and the trimmed label.
C7_ParseLineOutcome ==
    out.op = "ParseLine" =>
        /\ out.res.err = Outcome(line)
        /\ out.res.err = "" =>
             /\ Spells(out.res.value, ValueText(line))
             /\ out.res.label = LabelText(line)
        /\ out.res.err # "" => (out.res.value = <<0, 0>> /\ out.res.label = << >>)

\* ParseLine has returned 18.67 and "2021-Q1" for "18.67,2021-Q1".
C7_Witness ==
    /\ line = LineQuarter
    /\ out.op = "ParseLine"
    /\ out.res = [value |-> <<1867, 2>>,
                  label |-> <<"2", "0", "2", "1", "-", "Q", "1">>,
                  err |-> ""]

-----------------------------------------------------------------------------
(* C8 *)

\* C8, as claimed: for "$1,234.56 Revenue" ParseLine returns the value
\* 1234.56 and the label "Revenue".
C8_AsClaimed ==
    (line = LineRevenue /\ out.op = "ParseLine") =>
        /\ out.res.err = ""
        /\ out.res.value = <<123456, 2>>
        /\ out.res.label = <<"R", "e", "v", "e", "n", "u", "e">>

-----------------------------------------------------------------------------
(* Terminal renderer (package simple) *)

\* The runes are named by their code points; a bar is a sequence of runes.
smallTick == "U+258F"
DefaultTick == "U+2587"
DefaultMaxLength == 80
DefaultMaxLabelLength == 20
DefaultScale == FALSE

Min(a, b) == IF a < b THEN a ELSE b

\* strings.Repeat(string(c), n) for n >= 0.
Repeat(c, n) == [i \in 1..n |-> c]

\* fmt.Sprintf("%Ns", s): s right-aligned in a field of width n, never cut.  The
\* width is counted in runes (utf8.RuneCountInString), the characters of the model.
PadLeft(s, n) == IF Len(s) >= n THEN s ELSE Repeat(" ", n - Len(s)) \o s

\* fmt.Sprintf("%g", f) for the float64 f of v Units with the sign bit neg: the
\* sign, then the shortest decimal that reads back as f, which for the values of
\* the model is v / Unit.  Its digits d1 d2 ... dn stand for 0.d1d2...dn * 10^dp;
\* with the exponent dp - 1 below -4 or from 6 on (strconv's %e rule for the
\* shortest form), they are written as d1.d2...dne+xx, the exponent with two
\* digits at least.
FormatG(v, neg) ==
    LET DigitChar(d) == CHOOSE c \in Digits : DigitVal(c) = d
        RECURSIVE FormatInt(_)
        FormatInt(n) ==
            IF n < 10 THEN <<DigitChar(n)>> ELSE FormatInt(n \div 10) \o <<DigitChar(n % 10)>>
        RECURSIVE StripZeros(_)
        StripZeros(s) ==
            IF s # << >> /\ s[Len(s)] = "0" THEN StripZeros(SubSeq(s, 1, Len(s) - 1)) ELSE s
        Exponent(x) ==
            <<"e", IF x < 0 THEN "-" ELSE "+">>
                \o (IF -10 < x /\ x < 10 THEN <<"0">> ELSE << >>)
                \o FormatInt(IF x < 0 THEN -x ELSE x)
        Shortest(digs, dp) ==
            IF dp - 1 < -4 \/ dp - 1 >= 6
            THEN <<Head(digs)>> \o (IF Len(digs) > 1 THEN <<".">> \o Tail(digs) ELSE << >>)
                     \o Exponent(dp - 1)
            ELSE IF dp <= 0 THEN <<"0", ".">> \o Repeat("0", -dp) \o digs
            ELSE IF Len(digs) <= dp THEN digs \o Repeat("0", dp - Len(digs))
            ELSE SubSeq(digs, 1, dp) \o <<".">> \o SubSeq(digs, dp + 1, Len(digs))
        Decimal(all) == Shortest(StripZeros(all), Len(all) - FracDigits)
    IN  (IF neg THEN <<"-">> ELSE << >>)
            \o (IF v = 0 THEN <<"0">> ELSE Decimal(FormatInt(IF v < 0 THEN -v ELSE v)))

\* A renderer that was not returned, with the error returned in its place.
NilRenderer(i, e) == [pkg |-> "nil", err |-> <<"applying option", i, e>>]

\* Mutant of WithMaxLength: a length that is not positive is replaced by the default.
WithMaxLengthDefaulting(rr, n) ==
    <<[rr EXCEPT !.maxLen = IF n <= 0 THEN DefaultMaxLength ELSE n], "">>

\* The options: the renderer they leave and the error they return ("" for nil).
WithMaxLength(rr, n) ==
    IF n <= 0 THEN <<rr, "maximum length must be a positive integer">>
    ELSE <<[rr EXCEPT !.maxLen = n], "">>

WithMaxLabelLength(rr, n) ==
    IF n <= 0 THEN <<rr, "maximum label length must be a positive integer">>
    ELSE <<[rr EXCEPT !.maxLabelLen = n], "">>

WithScaling(rr, enable) == <<[rr EXCEPT !.scale = enable], "">>

WithTick(rr, tick) == <<[rr EXCEPT !.tick = tick], "">>

ApplyOption(rr, o) ==
    CASE o.opt = "WithMaxLength" -> WithMaxLength(rr, o.arg)
      [] o.opt = "WithMaxLabelLength" -> WithMaxLabelLength(rr, o.arg)
      [] o.opt = "WithScaling" -> WithScaling(rr, o.arg)
      [] o.opt = "WithTick" -> WithTick(rr, o.arg)

RECURSIVE applyOpts(_, _, _)
applyOpts(rr, opts, i) ==
    IF i > Len(opts) THEN rr
    ELSE LET res == ApplyOption(rr, opts[i])
         IN  IF res[2] # "" THEN NilRenderer(i, res[2]) ELSE applyOpts(res[1], opts, i + 1)

NewRenderer(opts) ==
    applyOpts([pkg |-> "simple", maxLen |-> DefaultMaxLength, maxLabelLen |-> DefaultMaxLabelLength,
               scale |-> DefaultScale, tick |-> DefaultTick,
               longestLabelLen |-> 0, longestValLen |-> 0, maxVal |-> 0, barLen |-> 0],
              opts, 1)

\* The options the command line passes, in its order.
Options(n, ml, sc, t) ==
    << [opt |-> "WithMaxLength", arg |-> n], [opt |-> "WithMaxLabelLength", arg |-> ml],
       [opt |-> "WithScaling", arg |-> sc], [opt |-> "WithTick", arg |-> t] >>

\* What a call that panicked returns: nothing, and the panic.
Panic == << << >>, TRUE >>

Ellips == <<".", ".", ".">>

\* truncate(s, maxLen).  sLen counts runes, and the two slices count bytes: s[:partLen]
\* and s[sLen-partLen:] are the first and last partLen characters of an ASCII s
\* only.  partLen is the quotient truncated toward zero; it is below sLen, which
\* is at most len(s), so that only a negative partLen is out of range.
truncate(s, maxLen) ==
    LET sLen == Len(s)    \* utf8.RuneCountInString(s)
        ellipsLen == len(Ellips)
        partLen == IF maxLen >= ellipsLen THEN (maxLen - ellipsLen) \div 2
                   ELSE -((ellipsLen - maxLen) \div 2)
    IN  IF sLen <= maxLen THEN <<s, FALSE>>
        ELSE IF partLen < 0 THEN Panic    \* s[:partLen]: slice bounds out of range
        ELSE <<Slice(s, 0, partLen) \o Ellips \o Slice(s, sLen - partLen, len(s)), FALSE>>

\* (*Renderer).label
label(rr, l) ==
    LET t == IF len(l) > rr.maxLabelLen THEN truncate(l, rr.maxLabelLen) ELSE <<l, FALSE>>
    IN  IF t[2] THEN Panic
        ELSE <<PadLeft(t[1], Min(rr.longestLabelLen, rr.maxLabelLen)), FALSE>>

\* (*Renderer).value, of the float64 of v Units with the sign bit neg.
value(v, neg) == FormatG(v, neg)

\* math.Round(|v| / |maxVal| * n) for maxVal # 0 and n >= 0, v and maxVal in Units
\* (|v| * n below 2^30).  The two float64 operations err by less than the distance
\* of the exact quotient to a half, unless the exact quotient is a half: then the
\* float64 product is a half, or misses it by its last bit.
LinearLength(v, maxVal, n) ==
    LET Quotient(x, y) == Float64Of(x.m, y.m, x.e - y.e)
        Product(x) == Float64Of(BigMul(x.m, BigOf(n)), <<1>>, x.e)
    IN  IF (2 * v * n) % maxVal = 0 /\ ((2 * v * n) \div maxVal) % 2 = 1
        THEN IF ReachesHalf(Product(Quotient(Float64Of(BigOf(v), BigOf(Unit), 0),
                                             Float64Of(BigOf(maxVal), BigOf(Unit), 0))),
                            (v * n) \div maxVal)
             THEN (v * n) \div maxVal + 1
             ELSE (v * n) \div maxVal
        ELSE Round(v * n, maxVal)

\* Powers too wide to keep: m * LimbBase^e with the leading limbs of the number in
\* m.  The product of x and y, cut below it (up = FALSE) or above it (up = TRUE)
\* when limbs are dropped.
Cut(x, y, limbs, up) ==
    LET Top(m) ==
            IF Len(m) <= limbs THEN [m |-> m, e |-> x.e + y.e]
            ELSE [m |-> BigAdd(SubSeq(m, Len(m) - limbs + 1, Len(m)), << >>,
                               IF up /\ (\E i \in 1..(Len(m) - limbs) : m[i] # 0) THEN 1 ELSE 0),
                  e |-> x.e + y.e + Len(m) - limbs]
    IN  Top(BigMul(x.m, y.m))

RECURSIVE CutPow(_, _, _, _)
CutPow(x, k, limbs, up) ==
    LET Square(h) == Cut(h, h, limbs, up)
        Odd(sq) == IF k % 2 = 1 THEN Cut(sq, x, limbs, up) ELSE sq
    IN  IF k = 0 THEN [m |-> <<1>>, e |-> 0]
        ELSE Odd(Square(CutPow(x, k \div 2, limbs, up)))

\* Where the real length n * log(a) / log(b) lies against l - 1/2, for a = q.an / Unit
\* and b = q.bn / Unit (a logarithm below 0 is that of the inverse, negated): it is
\* above when b^(2l-1) < a^(2n).  -1: b^(2l-1) is below a^(2n) by more than one part
\* in 2^20 of it, 1: it is above by more than that, 0: the two are closer than that,
\* or than the limbs kept can tell (first 2 limbs, then 6).  The float64 length
\* differs from the real one by less than that distance, for lengths below 2^20.
RECURSIVE PowerCmp(_, _, _)
PowerCmp(q, l, limbs) ==
    LET Pow(base, k, up) == CutPow([m |-> BigOf(base), e |-> 0], k, limbs, up)
        Num(x) == IF x > Unit THEN x ELSE Unit
        Den(x) == IF x > Unit THEN Unit ELSE x
        X(up) == Cut(Pow(Num(q.bn), 2 * l - 1, up), Pow(Den(q.an), 2 * q.n, up), limbs, up)
        Y(up) == Cut(Pow(Num(q.an), 2 * q.n, up), Pow(Den(q.bn), 2 * l - 1, up), limbs, up)
        Below(x, y) ==    \* x * (1 + 2^-20) < y
            IF Len(x.m) + x.e + 2 < Len(y.m) + y.e THEN TRUE
            ELSE IF Len(x.m) + x.e > Len(y.m) + y.e THEN FALSE
            ELSE BigCmp(BigShift(BigMul(x.m, BigOf(2^20 + 1)), x.e - Min(x.e, y.e)),
                        BigShift(BigShl(y.m, 20), y.e - Min(x.e, y.e))) < 0
    IN  IF Below(X(TRUE), Y(FALSE)) THEN -1
        ELSE IF Below(Y(TRUE), X(FALSE)) THEN 1
        ELSE IF limbs < 6 THEN PowerCmp(q, l, 6)
        ELSE 0

\* The greatest length the logarithms reach, or come that close to: lo is reached,
\* hi is not, once it is no longer open.
RECURSIVE Reached(_, _, _, _)
Reached(q, lo, hi, open) ==
    IF open
    THEN IF PowerCmp(q, hi, 2) > 0 THEN Reached(q, lo, hi, FALSE) ELSE Reached(q, hi, 2 * hi, TRUE)
    ELSE IF hi - lo = 1 THEN lo
    ELSE IF PowerCmp(q, (lo + hi) \div 2, 2) <= 0 THEN Reached(q, (lo + hi) \div 2, hi, FALSE)
    ELSE Reached(q, lo, (lo + hi) \div 2, FALSE)

\* float64 numbers with a sign: m * 2^e, negated when neg, and m = << >> for 0.
\* math.FMA(x, y, z): the float64 nearest to x * y + z.  x * y is Fma(x, y, 0), and
\* x + z is Fma(x, 1, z).
Fma(x, y, z) ==
    LET Aligned(xy, a, e, neg) ==    \* xy and a: the product and |z| in units of 2^e
            IF neg = z.neg THEN [m |-> BigAdd(xy, a, 0), e |-> e, neg |-> neg]
            ELSE IF BigCmp(xy, a) >= 0 THEN [m |-> BigSub(xy, a, 0), e |-> e, neg |-> neg]
            ELSE [m |-> BigSub(a, xy, 0), e |-> e, neg |-> z.neg]
        Sum(xy, e, neg) ==
            IF xy = << >> THEN z
            ELSE IF z.m = << >> THEN [m |-> xy, e |-> e, neg |-> neg]
            ELSE Aligned(BigShl(xy, e - Min(e, z.e)), BigShl(z.m, z.e - Min(e, z.e)),
                         Min(e, z.e), neg)
        Nearest(s) == IF s.m = << >> THEN [m |-> << >>, e |-> 0, neg |-> FALSE]
                      ELSE [neg |-> s.neg] @@ Float64Of(s.m, <<1>>, s.e)
    IN  Nearest(Sum(BigMul(x.m, y.m), x.e + y.e, x.neg # y.neg))

\* The constants of package math that math.Log10 computes with, as float64s:
\* L1 to L7, Ln2Hi and Ln2Lo of math.log, Sqrt2/2 as math.log compares with it,
\* 1/Ln2 of math.log2, Ln2/Ln10 of math.log10, and the 0.5, 1 and 2 of the code.
LogConstants ==
    [ L1 |-> [m |-> <<21907, 10922, 21845, 170>>, e |-> -53, neg |-> FALSE],   \* 0x1.5555555555593p-1
      L2 |-> [m |-> <<32385, 19659, 6553, 51>>, e |-> -52, neg |-> FALSE],     \* 0x1.999999997fa04p-2
      L3 |-> [m |-> <<4953, 10309, 9362, 146>>, e |-> -54, neg |-> FALSE],     \* 0x1.2492494229359p-2
      L4 |-> [m |-> <<30895, 15132, 18196, 227>>, e |-> -55, neg |-> FALSE],   \* 0x1.c71c51d8e78afp-3
      L5 |-> [m |-> <<495, 5835, 3273, 93>>, e |-> -54, neg |-> FALSE],        \* 0x1.7466496cb03dep-3
      L6 |-> [m |-> <<18079, 8433, 26663, 156>>, e |-> -55, neg |-> FALSE],    \* 0x1.39a09d078c69fp-3
      L7 |-> [m |-> <<5265, 28575, 28946, 37>>, e |-> -53, neg |-> FALSE],     \* 0x1.2f112df3e5244p-3
      Ln2Hi |-> [m |-> <<6135, 25316, 2>>, e |-> -32, neg |-> FALSE],          \* 0x1.62e42fee00000p-1
      Ln2Lo |-> [m |-> <<7739, 13689, 29662, 104>>, e |-> -84, neg |-> FALSE], \* 0x1.a39ef35793c76p-33
      HSqrt2 |-> [m |-> <<15309, 19710, 633, 181>>, e |-> -53, neg |-> FALSE], \* 0x1.6a09e667f3bcdp-1
      InvLn2 |-> [m |-> <<16767, 25899, 10894, 92>>, e |-> -51, neg |-> FALSE],        \* 0x1.71547652b82fep+0
      Ln2OverLn10 |-> [m |-> <<31231, 8510, 4173, 154>>, e |-> -54, neg |-> FALSE],   \* 0x1.34413509f79ffp-2
      zero |-> [m |-> << >>, e |-> 0, neg |-> FALSE],
      half |-> [m |-> <<1>>, e |-> -1, neg |-> FALSE],
      one |-> [m |-> <<1>>, e |-> 0, neg |-> FALSE],
      two |-> [m |-> <<1>>, e |-> 1, neg |-> FALSE] ]

\* The float64 operations of prog carried out in order on the variables reg: each
\* one names the variable it assigns, its operation and its operands.  "frac" and
\* "exp" are the two results of math.Frexp, the fraction doubled and the exponent
\* less 1 when the fraction is below the second operand; their first operand has a
\* mantissa of 53 bits.  The first half of prog is carried out before the second.
RECURSIVE Exec(_, _)
Exec(prog, reg) ==
    LET Neg(x) == [x EXCEPT !.neg = ~x.neg]
        OfInt(j) == [m |-> BigOf(IF j < 0 THEN -j ELSE j), e |-> 0, neg |-> j < 0]
        Below(x, y) == y.m # << >> /\ BigCmp(x.m, y.m) < 0
        Op(i, x, y) ==
            IF i[2] = "div"
            THEN IF x.m = << >> THEN x
                 ELSE [neg |-> x.neg # y.neg] @@ Float64Of(x.m, y.m, x.e - y.e)
            ELSE IF i[2] = "frac"
            THEN [m |-> x.m, e |-> IF Below(x, y) THEN -52 ELSE -53, neg |-> x.neg]
            ELSE IF i[2] = "exp" THEN OfInt(x.e + 53 - IF Below(x, y) THEN 1 ELSE 0)
            ELSE Fma(x,
                     IF i[2] \in {"add", "sub"} THEN reg.one ELSE y,
                     IF i[2] = "mul" THEN reg.zero            \* x * y
                     ELSE IF i[2] = "add" THEN y              \* x + y
                     ELSE IF i[2] = "sub" THEN Neg(y)         \* x - y
                     ELSE IF i[2] = "fma" THEN reg[i[5]]      \* x * y + z
                     ELSE Neg(reg[i[5]]))                     \* "fms": x * y - z
        half == Len(prog) \div 2
    IN  IF Len(prog) = 1 THEN (prog[1][1] :> Op(prog[1], reg[prog[1][3]], reg[prog[1][4]])) @@ reg
        ELSE CHOOSE after \in {Exec(SubSeq(prog, half + 1, Len(prog)), before)
                               : before \in {Exec(SubSeq(prog, 1, half), reg)}} : TRUE

\* math.log (math.Log) of the variable frac, statement by statement.  Without
\* fusing, the operations are those of log.go and, in the same order, of
\* log_amd64.s; with it, every x*y + z and x*y - z of one expression is one
\* operation, as the compilers for arm64 and others make it.
log(fused) ==
    << <<"f1", "frac", "frac", "HSqrt2">>,      \* f1, ki := math.Frexp(x)
       <<"k", "exp", "frac", "HSqrt2">>,        \* if f1 < Sqrt2/2 { f1 *= 2; ki-- }; k := float64(ki)
       <<"f", "sub", "f1", "one">>,             \* f := f1 - 1
       <<"d", "add", "two", "f">>,
       <<"s", "div", "f", "d">>,                \* s := f / (2 + f)
       <<"s2", "mul", "s", "s">>,               \* s2 := s * s
       <<"s4", "mul", "s2", "s2">> >>           \* s4 := s2 * s2
    \o IF ~fused
       THEN << <<"t1", "mul", "s4", "L7">>,     \* t1 := s2 * (L1 + s4*(L3+s4*(L5+s4*L7)))
               <<"t1", "add", "L5", "t1">>,
               <<"t1", "mul", "s4", "t1">>,
               <<"t1", "add", "L3", "t1">>,
               <<"t1", "mul", "s4", "t1">>,
               <<"t1", "add", "L1", "t1">>,
               <<"t1", "mul", "s2", "t1">>,
               <<"t2", "mul", "s4", "L6">>,     \* t2 := s4 * (L2 + s4*(L4+s4*L6))
               <<"t2", "add", "L4", "t2">>,
               <<"t2", "mul", "s4", "t2">>,
               <<"t2", "add", "L2", "t2">>,
               <<"t2", "mul", "s4", "t2">>,
               <<"R", "add", "t1", "t2">>,      \* R := t1 + t2
               <<"hfsq", "mul", "half", "f">>,  \* hfsq := 0.5 * f * f
               <<"hfsq", "mul", "hfsq", "f">>,
               <<"u", "add", "hfsq", "R">>,     \* return k*Ln2Hi -
               <<"u", "mul", "s", "u">>,        \*   ((hfsq - (s*(hfsq+R) + k*Ln2Lo)) - f)
               <<"w", "mul", "k", "Ln2Lo">>,
               <<"u", "add", "u", "w">>,
               <<"u", "sub", "hfsq", "u">>,
               <<"u", "sub", "u", "f">>,
               <<"w", "mul", "k", "Ln2Hi">>,
               <<"log", "sub", "w", "u">> >>
       ELSE << <<"t1", "fma", "s4", "L7", "L5">>,
               <<"t1", "fma", "s4", "t1", "L3">>,
               <<"t1", "fma", "s4", "t1", "L1">>,
               <<"t1", "mul", "s2", "t1">>,
               <<"t2", "fma", "s4", "L6", "L4">>,
               <<"t2", "fma", "s4", "t2", "L2">>,
               <<"R", "fma", "s4", "t2", "t1">>,
               <<"hf", "mul", "half", "f">>,
               <<"u", "fma", "hf", "f", "R">>,
               <<"u", "mul", "s", "u">>,
               <<"u", "fma", "k", "Ln2Lo", "u">>,
               <<"u", "fms", "hf", "f", "u">>,
               <<"u", "sub", "u", "f">>,
               <<"log", "fms", "k", "Ln2Hi", "u">> >>

\* math.log10 (math.Log10) of the variable x: math.log2(x) * (Ln2 / Ln10), where
\* math.log2 is the exponent less 1 when Frexp gives the fraction 0.5 (power2), and
\* Log(frac)*(1/Ln2) + float64(exp) otherwise.
log10(power2, fused) ==
    ( IF power2
      THEN << <<"log2", "exp", "x", "zero">>,            \* frac, exp := Frexp(x)
              <<"log2", "sub", "log2", "one">> >>        \* return float64(exp - 1)
      ELSE << <<"frac", "frac", "x", "zero">>,
              <<"exp", "exp", "x", "zero">> >>
           \o log(fused)
           \o IF fused THEN << <<"log2", "fma", "log", "InvLn2", "exp">> >>
              ELSE << <<"log2", "mul", "log", "InvLn2">>,
                      <<"log2", "add", "log2", "exp">> >> )
    \o << <<"log10", "mul", "log2", "Ln2OverLn10">> >>

\* math.Round(|math.Log10(value+1) / math.Log10(maxVal+1) * n|) for value + 1 =
\* q.an / Unit and maxVal + 1 = q.bn / Unit, both positive and not 1, and n = q.n > 0.
\* Where the real length is not close to a half it rounds as the float64 length
\* does; where it is, the float64 operations of bar are carried out.  A value bound
\* in a set of one element is computed once.
LogLength(q, fused) ==
    LET OfInt(j) == [m |-> BigOf(IF j < 0 THEN -j ELSE j), e |-> 0, neg |-> j < 0]
        Power2(j) == Float64Of(BigOf(j), BigOf(Unit), 0).m = <<0, 0, 0, 128>>
        Plus1(v) == << <<"x", "div", v, "unit">>,        \* the float64 of the decimal
                       <<"x", "add", "x", "one">> >>
        length == Plus1("value") \o log10(Power2(q.an), fused)
                  \o << <<"length", "add", "log10", "zero">> >>
                  \o Plus1("maxVal") \o log10(Power2(q.bn), fused)
                  \o << <<"length", "div", "length", "log10">>,
                        <<"length", "mul", "length", "barLen">> >>
    IN  IF q.an = q.bn THEN q.n
        ELSE CHOOSE rounded \in
                 { IF l = 0 \/ PowerCmp(q, l, 2) < 0 THEN l
                   ELSE IF ReachesHalf(Exec(length, [value |-> OfInt(q.an - Unit),
                                                     maxVal |-> OfInt(q.bn - Unit),
                                                     unit |-> OfInt(Unit),
                                                     barLen |-> OfInt(q.n)]
                                                    @@ LogConstants).length, l - 1) THEN l
                   ELSE l - 1
                   : l \in {Reached(q, 0, q.n + 1, TRUE)} } : TRUE

\* (*Renderer).bar, v and rr.maxVal in Units, in the build b.  The length after
\* math.Round is NaN, an infinity, or an integer: a quotient by 0 is NaN for 0 and
\* an infinity otherwise, an infinity times 0 is NaN, and math.Log10 is NaN below
\* 0, -Inf at 0 and 0 at 1.  strings.Repeat panics on a negative count, and on the
\* int of an infinity in every build.
bar(rr, v, b) ==
    LET NaN == [kind |-> "NaN", n |-> 0]
        Inf == [kind |-> "Inf", n |-> 0]
        Finite(negative, n) == [kind |-> "finite", n |-> IF negative THEN -n ELSE n]
        Abs(n) == IF n < 0 THEN -n ELSE n
        an == v + Unit
        bn == rr.maxVal + Unit
    IN  CHOOSE ticks \in
            { IF length.kind = "NaN"
              THEN IF b.nan = "zero" THEN << << >>, FALSE >> ELSE Panic
              ELSE IF length.kind = "Inf" THEN Panic
              ELSE IF length.n = 0
              THEN <<IF rr.tick = DefaultTick THEN <<smallTick>> ELSE << >>, FALSE>>
              ELSE IF length.n < 0 THEN Panic    \* strings: negative Repeat count
              ELSE <<Repeat(rr.tick, length.n), FALSE>>
              : length \in
                  { IF ~rr.scale
                    THEN IF rr.maxVal = 0
                         THEN IF v = 0 \/ rr.barLen = 0 THEN NaN ELSE Inf
                         ELSE Finite((v < 0) = ((rr.maxVal < 0) = (rr.barLen < 0)),
                                     LinearLength(Abs(v), Abs(rr.maxVal), Abs(rr.barLen)))
                    ELSE IF an < 0 \/ bn < 0 \/ (an = 0 /\ bn = 0) THEN NaN
                    ELSE IF bn = 0 THEN Finite(FALSE, 0)
                    ELSE IF an = 0 THEN (IF rr.barLen = 0 THEN NaN ELSE Inf)
                    ELSE IF bn = Unit THEN (IF an = Unit \/ rr.barLen = 0 THEN NaN ELSE Inf)
                    ELSE IF an = Unit \/ rr.barLen = 0 THEN Finite(FALSE, 0)
                    ELSE Finite((an < Unit) = ((bn < Unit) = (rr.barLen < 0)),
                                LogLength([an |-> an, bn |-> bn, n |-> Abs(rr.barLen)],
                                          b.fused)) } } : TRUE

\* (*Renderer).write, for the float64 of v Units with the sign bit neg: the three
\* arguments of the row's Fprintf, or the panic of one.  bar does not tell -0
\* from 0: -0 divided by a maxVal of 0 is NaN, its quotient by another is -0, which
\* is equal to 0, and -0 + 1 is 1.
write(rr, l, v, neg, b) ==
    CHOOSE row \in
        { IF lab[2] \/ ticks[2] THEN Panic
          ELSE <<[label |-> lab[1], bar |-> ticks[1], value |-> value(v, neg)], FALSE>>
          : lab \in {label(rr, l)}, ticks \in {bar(rr, v, b)} } : TRUE

\* fmt.Fprintf(out, "%s %s %s\n", ...): the row as written.
RowText(row) == row.label \o <<" ">> \o row.bar \o <<" ">> \o row.value \o <<"\n">>

RECURSIVE writeRows(_, _, _, _)
writeRows(rr, labels, b, rows) ==
    IF labels = << >> THEN [pkg |-> "simple", status |-> "ok", rows |-> rows]
    ELSE IF Value(Head(labels))[2] # "" THEN [pkg |-> "simple", status |-> "error", rows |-> rows]
    ELSE CHOOSE written \in
             { IF row[2] THEN [pkg |-> "simple", status |-> "panic", rows |-> rows]
               ELSE writeRows(rr, Tail(labels), b, Append(rows, row[1]))
               : row \in {write(rr, Head(labels), Value(Head(labels))[1],
                                 Signbit(Head(labels)), b)} } : TRUE

\* The renderer's fields as Render sets them before the first row: both lengths
\* are numbers of bytes.  MaxValue is never -0: its maxVal starts at 0.0 and is
\* replaced by greater values only.
Measured(rr) ==
    LET longestLabelLen == Min(len(MaxLabel), rr.maxLabelLen)
        longestValLen == len(value(MaxValue, FALSE))
    IN  [rr EXCEPT !.maxVal = MaxValue,
                   !.longestLabelLen = longestLabelLen,
                   !.longestValLen = longestValLen,
                   !.barLen = rr.maxLen - longestLabelLen - longestValLen - 2]

\* (*Renderer).Render on the chart of the state, in any build: of a build, the
\* rows depend on the order of c.Labels() and on the choices in bar.
Render ==
    /\ r' = Measured(r)
    /\ \E b \in {[labels |-> Labels(x.int), nan |-> x.nan, fused |-> x.fused] : x \in Builds} :
          rendered' = writeRows(Measured(r), b.labels, b, << >>)

-----------------------------------------------------------------------------
(* Mermaid renderer (package mermaid) *)

MermaidNewRenderer(title) == [pkg |-> "mermaid", title |-> title]

RECURSIVE Join(_, _)
Join(elems, sep) ==
    IF elems = << >> THEN << >>
    ELSE IF Len(elems) = 1 THEN elems[1]
    ELSE elems[1] \o sep \o Join(Tail(elems), sep)

Quote == "\""
XyChartBeta == <<"x", "y", "c", "h", "a", "r", "t", "-", "b", "e", "t", "a">>
TitleOpen == <<" ", " ", "t", "i", "t", "l", "e", " ", Quote>>
XAxisOpen == <<" ", " ", "x", "-", "a", "x", "i", "s", " ", "[">>
BarOpen == <<" ", " ", "b", "a", "r", " ", "[">>

\* The text (*Renderer).Render writes, as its lines, where an int has size bits.
MermaidLines(rr, size) ==
    LET labels == Labels(size)
        vals == [i \in DOMAIN labels |-> FormatG(Value(labels[i])[1], Signbit(labels[i]))]
    IN  <<XyChartBeta>>
        \o (IF rr.title # << >> THEN <<TitleOpen \o rr.title \o <<Quote>>>> ELSE << >>)
        \o <<XAxisOpen \o <<Quote>> \o Join(labels, <<Quote, ",", " ", Quote>>) \o <<Quote, "]">>>>
        \o <<BarOpen \o Join(vals, <<",", " ">>) \o <<"]">>>>

\* (*Renderer).Render on the chart of the state, where an int has size bits.
MermaidRender(size) ==
    /\ rendered' = [pkg |-> "mermaid", status |-> "ok", lines |-> MermaidLines(r, size)]
    /\ UNCHANGED r

-----------------------------------------------------------------------------
(* Rendering charts: the calls on a chart and a renderer *)

\* The labels "a", "2021" and "Revenue", each with 0, 7.75 or 8: a value of 0, and
\* two values whose bars differ between the linear and the logarithmic mode and
\* that print at different widths.  And "Egalite", its first and last letter with
\* an acute accent, with -0.001: a label of 7 runes in 9 bytes, and a value that
\* Value returns as -0.
RenderRows ==
    ({ <<"a">>, <<"2", "0", "2", "1">>, <<"R", "e", "v", "e", "n", "u", "e">> }
        \X { 0, 31 * Quarter, 32 * Quarter })
    \cup { << <<"U+00C9", "g", "a", "l", "i", "t", "U+00E9">>, -(Unit \div 1000) >> }

RenderSorts == {SortNone, SortByValue}
RenderDirections == {OrderNone, OrderDesc}
MaxLengthArgs == {-1, 0, 1, 12, DefaultMaxLength}
MaxLabelLengthArgs == {-1, 0, 1, 2, 5, DefaultMaxLabelLength}
Ticks == {DefaultTick, "*"}
Titles == { << >>, <<"R", "e", "v", "e", "n", "u", "e">> }

InitRender ==
    /\ \E so \in RenderSorts, dir \in RenderDirections : New(so, dir, DefaultPrecision)
    /\ ret = NoRet
    /\ NoText
    /\ NoRendering
    /\ NoCli
    /\ NoCallers

CallNewRenderer(n, ml, sc, t) ==
    /\ r = NoRenderer
    /\ r' = NewRenderer(Options(n, ml, sc, t))
    /\ UNCHANGED <<data, sort, sortDir, p, ret, line, out, rendered, run, mu, th>>

CallMermaidNewRenderer(title) ==
    /\ r = NoRenderer
    /\ r' = MermaidNewRenderer(title)
    /\ UNCHANGED <<data, sort, sortDir, p, ret, line, out, rendered, run, mu, th>>

CallRender ==
    /\ r.pkg = "simple"
    /\ Render
    /\ UNCHANGED <<data, sort, sortDir, p, ret, line, out, run, mu, th>>

CallMermaidRender ==
    /\ r.pkg = "mermaid"
    /\ \E size \in {b.int : b \in Builds} : MermaidRender(size)
    /\ UNCHANGED <<data, sort, sortDir, p, ret, line, out, run, mu, th>>

\* Render sets every field it reads of the renderer, and reads the chart only: what a
\* Render writes depends on the chart and the options alone, so the charts are filled
\* before the first Render and the runs end with the Render calls.
FillChart(l, v) == rendered = NotRendered /\ Set(l, v)

NextRender ==
    \/ \E row \in RenderRows : FillChart(row[1], row[2])
    \/ \E n \in MaxLengthArgs, ml \in MaxLabelLengthArgs, sc \in BOOLEAN, t \in Ticks :
          CallNewRenderer(n, ml, sc, t)
    \/ \E title \in Titles : CallMermaidNewRenderer(title)
    \/ CallRender
    \/ CallMermaidRender

SpecRender == InitRender /\ [][NextRender]_vars

-----------------------------------------------------------------------------
(* Properties of the terminal renderer *)

\* The state after a Render of the terminal renderer.
SimpleRendered == rendered.status # "none" /\ rendered.pkg = "simple"

NonNegative == \A l \in DOMAIN data.m : data.m[l] >= 0

\* The length a bar stands for: the thin tick marks a bar of length 0.
BarLength(row) == IF row.bar = <<smallTick>> THEN 0 ELSE Len(row.bar)

\* C11, as claimed: in linear mode, for every non-empty chart with non-negative
\* values and every accepted configuration (max length >= 1, max label length
\* >= 1), Render completes without failing and each row's bar length is
\* round(value / maxValue * barLen), an integer from 0 to barLen (read as 0 for a
\* chart whose maximum is 0).
C11_AsClaimed ==
    (SimpleRendered /\ ~r.scale /\ Len(data.k) > 0 /\ NonNegative) =>
        /\ rendered.status = "ok"
        /\ \E size \in IntSizes :    \* the rows are those of Labels() in the build that ran
              /\ Len(rendered.rows) = Len(Labels(size))
              /\ \A i \in DOMAIN rendered.rows :
                    LET length == BarLength(rendered.rows[i])
                    IN  /\ length = IF r.maxVal = 0 THEN 0
                                    ELSE Round(Value(Labels(size)[i])[1] * r.barLen, r.maxVal)
                        /\ 0 <= length
                        /\ length <= r.barLen

-----------------------------------------------------------------------------
(* Properties of the Mermaid renderer *)

\* The state after a Render of the Mermaid renderer.
MermaidRendered == rendered.status # "none" /\ rendered.pkg = "mermaid"

\* A list of entries as Mermaid writes one: the entries separated by ", ".
ListOf(entries) == Join(entries, <<",", " ">>)

Quoted(s) == <<Quote>> \o s \o <<Quote>>

\* C12, as claimed: for every chart, an empty one included, the Mermaid renderer
\* writes the header xychart-beta, a title line exactly when the title is not
\* empty, an x-axis line that lists exactly the chart's labels, each one quoted,
\* in Labels() order, and a bar line that lists exactly their values: both lists
\* have one entry for each label of the chart.
C12_AsClaimed ==
    MermaidRendered =>
        \E size \in IntSizes :    \* Labels() is that of the build that ran
            LET labels == Labels(size)
                titled == r.title # << >>
                lines == rendered.lines
                n == Len(lines)
            IN  /\ rendered.status = "ok"
                /\ n = IF titled THEN 4 ELSE 3
                /\ lines[1] = XyChartBeta
                /\ titled => lines[2] = TitleOpen \o r.title \o <<Quote>>
                /\ lines[n - 1] = XAxisOpen \o ListOf([i \in DOMAIN labels |-> Quoted(labels[i])])
                                     \o <<"]">>
                /\ lines[n] = BarOpen \o ListOf([i \in DOMAIN labels |->
                                                       FormatG(Value(labels[i])[1], Signbit(labels[i]))])
                                 \o <<"]">>

-----------------------------------------------------------------------------
(* The command line: cli.Run *)

exitNormal == 0
exitError == 1

\* The float64 ParseLine returns, in Units (for a number of at most FracDigits decimals).
Float64Units(d) == d[1] * Pow10(FracDigits - d[2])

\* Chart.Add on the store.
ChartAdd(d, l, v) == set(d, l, IF get(d, l)[2] THEN v + get(d, l)[1] ELSE v)

\* The lines of the input: a blank line, "# a", "a" (no separator), "8 a", "0 a",
\* and "8 b" followed by a no-break space.
CliLines ==
    { << >>, <<"#", " ", "a">>, <<"a">>,
      <<"8", " ", "a">>, <<"0", " ", "a">>, <<"8", " ", "b", "U+00A0">> }

Inputs == UNION {[1..n -> CliLines] : n \in 0..MaxInput}

\* The flags that vary: -c, -l, -L and -m.  The others keep their defaults (sort
\* "none" in ascending direction, precision 2, no scaling, the default tick, no
\* title); the Chart.js renderer of -C is not part of the model.
FlagSets ==
    [Count : BOOLEAN, MaxLength : {-1, 0, 1, DefaultMaxLength},
     MaxLabelLength : {0, DefaultMaxLabelLength}, Scale : BOOLEAN, Mermaid : BOOLEAN]

\* Run up to its loop: the flags are parsed, the chart is made, the input is open.
\* exit is the status Run returned, once pc is "done".
InitCli ==
    /\ \E f \in FlagSets, input \in Inputs :
          run = [pc |-> "scan", flags |-> f, input |-> input, pos |-> 1, exit |-> exitNormal]
    /\ New(SortNone, OrderAsc, DefaultPrecision)
    /\ ret = NoRet
    /\ NoText
    /\ NoRendering
    /\ NoCallers

\* One turn of the loop over scanner.Scan().
ScanLine ==
    /\ run.pc = "scan"
    /\ run.pos <= Len(run.input)
    /\ LET text == run.input[run.pos]
           ln == TrimSpace(text)
           parsed == ParseLine(ln)
       IN  data' = IF ln = << >> \/ Head(ln) = "#" THEN data
                   ELSE IF run.flags.Count THEN ChartAdd(data, TrimSpace(text), Unit)
                   ELSE IF parsed.err # "" THEN data
                   ELSE set(data, parsed.label, Float64Units(parsed.value))
    /\ run' = [run EXCEPT !.pos = @ + 1]
    /\ UNCHANGED <<sort, sortDir, p, ret, line, out, r, rendered, mu, th>>

\* The input is at its end: the renderer is made, or Run returns fatal("creating renderer").
CreateRenderer ==
    /\ run.pc = "scan"
    /\ run.pos > Len(run.input)
    /\ r' = IF run.flags.Mermaid THEN MermaidNewRenderer(<< >>)
            ELSE NewRenderer(Options(run.flags.MaxLength, run.flags.MaxLabelLength,
                                     run.flags.Scale, DefaultTick))
    /\ run' = IF r'.pkg = "nil" THEN [run EXCEPT !.pc = "done", !.exit = exitError]
              ELSE [run EXCEPT !.pc = "render"]
    /\ UNCHANGED <<data, sort, sortDir, p, ret, line, out, rendered, mu, th>>

\* flags.Out() and renderer.Render(c, out); a panic in Render ends the process
\* before Run returns.
RenderChart ==
    /\ run.pc = "render"
    /\ \/ r.pkg = "simple" /\ Render
       \/ r.pkg = "mermaid" /\ \E size \in {b.int : b \in Builds} : MermaidRender(size)
    /\ run' = IF rendered'.status = "ok" THEN [run EXCEPT !.pc = "done", !.exit = exitNormal]
              ELSE IF rendered'.status = "error" THEN [run EXCEPT !.pc = "done", !.exit = exitError]
              ELSE [run EXCEPT !.pc = "panic"]
    /\ UNCHANGED <<data, sort, sortDir, p, ret, line, out, mu, th>>

NextCli ==
    \/ ScanLine
    \/ CreateRenderer
    \/ RenderChart

SpecCli == InitCli /\ [][NextCli]_vars

-----------------------------------------------------------------------------
(* Properties of the command line *)

NonPositive(n, ml) == n <= 0 \/ ml <= 0

TerminalRun == run.pc # "none" /\ ~run.flags.Mermaid

\* C13: NewRenderer of the terminal renderer with a max length or a max label
\* length that is not positive returns an error and no renderer (the value is
\* not replaced by a default), and a run of the command with such a flag for the
\* terminal renderer ends with the error exit status and has written nothing.
C13_NonPositiveLengthIsError ==
    /\ \A n \in MaxLengthArgs, ml \in MaxLabelLengthArgs, sc \in BOOLEAN, t \in Ticks :
          NonPositive(n, ml) =>
              LET made == NewRenderer(Options(n, ml, sc, t))
              IN  made.pkg = "nil" /\ made.err # << >>
    /\ (TerminalRun /\ NonPositive(run.flags.MaxLength, run.flags.MaxLabelLength)) =>
          /\ run.pc \in {"scan", "done"}
          /\ rendered = NotRendered
          /\ run.pc = "done" => r.pkg = "nil" /\ run.exit = exitError

\* C13's case: a run for the terminal renderer with -l 0 that read a chart and returned.
C13_Witness ==
    /\ TerminalRun
    /\ run.flags.MaxLength <= 0
    /\ run.pc = "done"
    /\ run.exit = exitError
    /\ Len(data.k) > 0

\* Whether the loop of Run passes a line by: blank, a comment, or not parsable.
PassedBy(text) ==
    LET ln == TrimSpace(text)
    IN  ln = << >> \/ Head(ln) = "#" \/ ParseLine(ln).err # ""

\* The lines applied with Set, one after another.
RECURSIVE SetAll(_, _)
SetAll(d, lines) ==
    IF lines = << >> THEN d
    ELSE IF PassedBy(Head(lines)) THEN SetAll(d, Tail(lines))
    ELSE LET parsed == ParseLine(TrimSpace(Head(lines)))
         IN  SetAll(set(d, parsed.label, Float64Units(parsed.value)), Tail(lines))

Scanned == SubSeq(run.input, 1, run.pos - 1)

\* C14, as claimed: without -c, a line ParseLine fails on (or a blank line, or a
\* line starting with '#') leaves the chart unchanged and does not stop the run:
\* the chart is the one the parsable lines give when applied with Set in input
\* order, and the run renders it and returns the normal exit status (for flags
\* the renderer accepts).
C14_AsClaimed ==
    ( /\ run.pc # "none"
      /\ ~run.flags.Count
      /\ ~NonPositive(run.flags.MaxLength, run.flags.MaxLabelLength)
      /\ \E i \in DOMAIN Scanned : PassedBy(Scanned[i]) ) =>
        /\ data = SetAll(newOrderedMap, Scanned)
        /\ run.pc \in {"scan", "render", "done"}
        /\ run.pc = "done" => rendered.status = "ok" /\ run.exit = exitNormal

-----------------------------------------------------------------------------
(* Properties of the rows of the terminal renderer *)

\* The labels of the chart that are longer than the renderer's max label length.
LongLabels == {l \in DOMAIN data.m : Len(l) > r.maxLabelLen}

\* The text the claim gives a long label: its first and last k characters around
\* "...", for k = floor((max label length - 3) / 2).
Shortened(l, maxLabelLen) ==
    LET k == (maxLabelLen - 3) \div 2
    IN  SubSeq(l, 1, k) \o Ellips \o SubSeq(l, Len(l) - k + 1, Len(l))

\* C15, as claimed: for every accepted max label length (>= 1) and every label
\* longer than it, the label the terminal renderer writes is front + "..." + back,
\* front and back being the first and last floor((max label length - 3) / 2)
\* characters of the label (right-aligned in the label column), and it is never
\* longer than the max label length.
C15_AsClaimed ==
    SimpleRendered =>
        \A l \in LongLabels :
            LET written == label(r, l)
            IN  /\ ~written[2]
                /\ TrimLeft(written[1]) = Shortened(l, r.maxLabelLen)
                /\ Len(written[1]) <= r.maxLabelLen

\* The characters of a written row, its line end not counted.
RowLength(row) == Len(RowText(row)) - 1

\* C18, as claimed: for every chart with non-negative values and every accepted
\* configuration, no row the terminal renderer writes (the aligned label, a
\* space, the bar, a space, the value) is longer than the configured max length.
C18_AsClaimed ==
    (SimpleRendered /\ NonNegative) =>
        \A i \in DOMAIN rendered.rows : RowLength(rendered.rows[i]) <= r.maxLen

-----------------------------------------------------------------------------
(* Concurrent callers of one orderedMap and of Chart.Add *)

Threads == 1..NumThreads

ConcLabels == { <<"a">>, <<"b">> }

\* 0.25 and 0.5
ConcValues == { Quarter, 2 * Quarter }

\* The calls a caller makes: orderedMap's set, get, keys and values, and Chart.Add.
Calls ==
    [op : {"set", "Add"}, key : ConcLabels, val : ConcValues]
        \cup [op : {"get"}, key : ConcLabels, val : {0}]
        \cup [op : {"keys", "values"}, key : {<< >>}, val : {0}]

\* The chart the callers share: chart.New().Set("a", 0.25).
InitStore == set(newOrderedMap, <<"a">>, Quarter)

\* A caller before its call.  key and val are the arguments of set, got is what
\* get returned, ks and i are the range loop of values, res is the result.
\* alone records that no other call was in progress during this one.
Caller(c) ==
    [call |-> c, pc |-> "start", key |-> c.key, val |-> c.val, got |-> <<0, FALSE>>,
     ks |-> << >>, i |-> 1, res |-> << >>, alone |-> TRUE]

InitConc ==
    /\ data = InitStore
    /\ sort = DefaultSort
    /\ sortDir = DefaultSortDirection
    /\ p = WithPrecision(DefaultPrecision)
    /\ mu = Unlocked
    /\ th \in [Threads -> {Caller(c) : c \in Calls}]
    /\ ret = NoRet
    /\ NoText
    /\ NoRendering
    /\ NoCli

InProgress(t) == th[t].pc \notin {"start", "done"}

\* Mutant of CanRLock: a reader does not wait for the writer.
CanRLockDuringWrite == TRUE

\* sync.RWMutex: RLock is granted when no writer holds the lock, Lock when nobody does.
CanRLock == ~mu.w

CanLock == ~mu.w /\ mu.r = 0

\* m.m[k] of a Go map: the zero value for a key that is not there.
MapIndex(m, k) == IF k \in DOMAIN m THEN m[k] ELSE 0

\* Mutant of AddValue: the value read is not added.
AddValueOverwrites(delta, got) == delta

\* Chart.Add: value += val when the label is there.
AddValue(delta, got) == IF got[2] THEN delta + got[1] ELSE delta

\* The call begins: set goes for the write lock, the others for the read lock.
Invoke(t) ==
    /\ th[t].pc = "start"
    /\ th' = [u \in Threads |->
                IF u = t
                THEN [th[t] EXCEPT !.pc = IF th[t].call.op = "set" THEN "lock" ELSE "rlock",
                                   !.alone = \A o \in Threads \ {t} : ~InProgress(o)]
                ELSE IF InProgress(u) THEN [th[u] EXCEPT !.alone = FALSE] ELSE th[u]]
    /\ UNCHANGED <<data, mu, sort, sortDir, p, ret, line, out, r, rendered, run>>

\* m.mu.RLock()
RLock(t) ==
    /\ th[t].pc = "rlock"
    /\ CanRLock
    /\ mu' = [mu EXCEPT !.r = @ + 1]
    /\ th' = [th EXCEPT ![t].pc = "read"]
    /\ UNCHANGED <<data, sort, sortDir, p, ret, line, out, r, rendered, run>>

\* get: val, ok := m.m[key]
GetRead(t) ==
    /\ th[t].pc = "read"
    /\ th[t].call.op \in {"get", "Add"}
    /\ th' = [th EXCEPT ![t].got = get(data, th[t].key), ![t].pc = "runlock"]
    /\ UNCHANGED <<data, mu, sort, sortDir, p, ret, line, out, r, rendered, run>>

\* keys: cp := make([]string, len(m.k)); copy(cp, m.k)
KeysCopy(t) ==
    /\ th[t].pc = "read"
    /\ th[t].call.op = "keys"
    /\ th' = [th EXCEPT ![t].res = keys(data), ![t].pc = "runlock"]
    /\ UNCHANGED <<data, mu, sort, sortDir, p, ret, line, out, r, rendered, run>>

\* values: vals := make(...); the range expression m.k is evaluated
ValuesRange(t) ==
    /\ th[t].pc = "read"
    /\ th[t].call.op = "values"
    /\ th' = [th EXCEPT ![t].ks = data.k, ![t].i = 1, ![t].res = << >>,
                        ![t].pc = IF data.k = << >> THEN "runlock" ELSE "loop"]
    /\ UNCHANGED <<data, mu, sort, sortDir, p, ret, line, out, r, rendered, run>>

\* values: vals = append(vals, m.m[k]) for the next k
ValuesAppend(t) ==
    /\ th[t].pc = "loop"
    /\ th' = [th EXCEPT ![t].res = Append(@, MapIndex(data.m, th[t].ks[th[t].i])),
                        ![t].i = @ + 1,
                        ![t].pc = IF th[t].i = Len(th[t].ks) THEN "runlock" ELSE "loop"]
    /\ UNCHANGED <<data, mu, sort, sortDir, p, ret, line, out, r, rendered, run>>

\* m.mu.RUnlock() and the return; Add goes on to c.Set(label, value).
RUnlock(t) ==
    /\ th[t].pc = "runlock"
    /\ mu' = [mu EXCEPT !.r = @ - 1]
    /\ th' = IF th[t].call.op = "Add"
             THEN [th EXCEPT ![t].val = AddValue(th[t].call.val, th[t].got), ![t].pc = "lock"]
             ELSE [th EXCEPT ![t].pc = "done"]
    /\ UNCHANGED <<data, sort, sortDir, p, ret, line, out, r, rendered, run>>

\* m.mu.Lock()
Lock(t) ==
    /\ th[t].pc = "lock"
    /\ CanLock
    /\ mu' = [mu EXCEPT !.w = TRUE]
    /\ th' = [th EXCEPT ![t].pc = "write"]
    /\ UNCHANGED <<data, sort, sortDir, p, ret, line, out, r, rendered, run>>

\* set: the key is there, m.m[key] = val
SetUpdate(t) ==
    /\ th[t].pc = "write"
    /\ th[t].key \in DOMAIN data.m
    /\ data' = [data EXCEPT !.m[th[t].key] = th[t].val]
    /\ th' = [th EXCEPT ![t].pc = "unlock"]
    /\ UNCHANGED <<mu, sort, sortDir, p, ret, line, out, r, rendered, run>>

\* set: the key is new, m.k = append(m.k, key)
SetAppend(t) ==
    /\ th[t].pc = "write"
    /\ th[t].key \notin DOMAIN data.m
    /\ data' = [data EXCEPT !.k = Append(@, th[t].key)]
    /\ th' = [th EXCEPT ![t].pc = "store"]
    /\ UNCHANGED <<mu, sort, sortDir, p, ret, line, out, r, rendered, run>>

\* set: the key is new, m.m[key] = val
SetStore(t) ==
    /\ th[t].pc = "store"
    /\ data' = [data EXCEPT !.m = [x \in DOMAIN @ \cup {th[t].key} |->
                                      IF x = th[t].key THEN th[t].val ELSE @[x]]]
    /\ th' = [th EXCEPT ![t].pc = "unlock"]
    /\ UNCHANGED <<mu, sort, sortDir, p, ret, line, out, r, rendered, run>>

\* m.mu.Unlock() and the return
Unlock(t) ==
    /\ th[t].pc = "unlock"
    /\ mu' = [mu EXCEPT !.w = FALSE]
    /\ th' = [th EXCEPT ![t].pc = "done"]
    /\ UNCHANGED <<data, sort, sortDir, p, ret, line, out, r, rendered, run>>

NextConc ==
    \/ \E t \in Threads : Invoke(t)
    \/ \E t \in Threads : RLock(t)
    \/ \E t \in Threads : GetRead(t)
    \/ \E t \in Threads : KeysCopy(t)
    \/ \E t \in Threads : ValuesRange(t)
    \/ \E t \in Threads : ValuesAppend(t)
    \/ \E t \in Threads : RUnlock(t)
    \/ \E t \in Threads : Lock(t)
    \/ \E t \in Threads : SetUpdate(t)
    \/ \E t \in Threads : SetAppend(t)
    \/ \E t \in Threads : SetStore(t)
    \/ \E t \in Threads : Unlock(t)

SpecConc == InitConc /\ [][NextConc]_vars

-----------------------------------------------------------------------------
(* Properties of the concurrent callers *)

\* The callers inside a read-locked section, and those inside a write-locked one.
Reading == {t \in Threads : th[t].pc \in {"read", "loop", "runlock"}}
Writing == {t \in Threads : th[t].pc \in {"write", "store", "unlock"}}

IsPrefix(s, t) == Len(s) <= Len(t) /\ SubSeq(t, 1, Len(s)) = s

\* C16: under any interleaving of concurrent set, get, keys and values calls
\* (and Add's) on one orderedMap each call takes effect atomically: the key
\* sequence never has a duplicate; a writer is alone in its section; while a
\* reader is in its section every key of the sequence has a stored value; what
\* get, keys and values are about to return is what the store holds at that one
\* state (values: one value per key, in key order); and the copy keys returned
\* stays as it was, a prefix of the sequence that later sets have appended to.
C16_CallsAtomic ==
    /\ NoDuplicates(data.k)
    /\ Cardinality(Writing) <= 1
    /\ Writing # {} => Reading = {}
    /\ Reading # {} => Range(data.k) = DOMAIN data.m
    /\ \A t \in Threads :
          /\ (th[t].pc = "runlock" /\ th[t].call.op = "values") => th[t].res = values(data)
          /\ (th[t].pc = "runlock" /\ th[t].call.op = "keys") => th[t].res = keys(data)
          /\ (th[t].pc = "runlock" /\ th[t].call.op \in {"get", "Add"}) =>
                th[t].got = get(data, th[t].key)
          /\ (th[t].pc = "done" /\ th[t].call.op = "keys") => IsPrefix(th[t].res, data.k)

\* C16's case: keys and values have returned to two callers, and a set that came
\* after one of them has appended a key.
C16_Witness ==
    \E t \in Threads :
        /\ th[t].pc = "done"
        /\ th[t].call.op \in {"keys", "values"}
        /\ Len(th[t].res) < Len(data.k)
        /\ Range(data.k) = DOMAIN data.m

AllReturned == \A t \in Threads : th[t].pc = "done"

\* Every caller made an Add call on label l.
AddsOn(l) == \A t \in Threads : th[t].call.op = "Add" /\ th[t].call.key = l

\* The value of l before the calls (Add takes a missing label as 0).
Before(l) == get(InitStore, l)[1]

RECURSIVE SumDeltas(_)
SumDeltas(S) ==
    IF S = {} THEN 0
    ELSE LET t == CHOOSE x \in S : TRUE IN th[t].call.val + SumDeltas(S \ {t})

\* C17, as claimed: when several Add calls on the same label run concurrently no
\* increment is lost: once all have returned, the label's value is its value
\* before the calls plus the sum of all deltas.
C17_AsClaimed ==
    \A l \in ConcLabels :
        (AllReturned /\ AddsOn(l)) => data.m[l] = Before(l) + SumDeltas(Threads)

\* C17, amended: once all Add calls on a label have returned, its value is the
\* value before the calls plus the deltas of some of the calls, at least one; it
\* is the sum of all deltas when no call ran while another was in progress.
C17_NoIncrementLostUnlessOverlap ==
    \A l \in ConcLabels :
        (AllReturned /\ AddsOn(l)) =>
            /\ \E S \in SUBSET Threads \ {{}} : data.m[l] = Before(l) + SumDeltas(S)
            /\ (\A t \in Threads : th[t].alone) => data.m[l] = Before(l) + SumDeltas(Threads)

\* C17's case: overlapping Add calls on one label have all returned, and an
\* increment is lost.
C17_Witness ==
    \E l \in ConcLabels :
        /\ AllReturned
        /\ AddsOn(l)
        /\ \E t \in Threads : ~th[t].alone
        /\ data.m[l] < Before(l) + SumDeltas(Threads)

====
